---- MODULE Spec2Model ----
(***************************************************************************)
(* Model of the audiotext bot core: the sliding-window RateLimiter         *)
(* (app/rate_limiter.py), the MemoryStore (app/memory.py) and the          *)
(* handle_tiktok_url pipeline (app/handlers.py, app/video_processor.py).   *)
(*                                                                         *)
(* Three specifications share the variables; each one moves its own part   *)
(* of the state and leaves the rest at its initial value:                  *)
(*   SpecRate  concurrent handlers passing RateLimiter.is_allowed          *)
(*   SpecMem   concurrent MemoryStore.add_memory / clear / search calls    *)
(*   SpecPipe  one run of handle_tiktok_url, step by step                  *)
(***************************************************************************)
EXTENDS Integers, Sequences, FiniteSets, TLC

(* ------------------------------ bounds -------------------------------- *)
\* handler coroutines that may be in flight at once (SpecRate)
NumHandlers == 2
\* is_allowed calls explored in one behaviour
MaxChecks == 4
\* clock advances explored in one behaviour
MaxTicks == 3
\* manual tracks, and automatic tracks, of one video (SpecSubs)
MaxTracks == 2
\* segments in one response of the speech provider (SpecSegs)
MaxSegments == 2
\* runs in flight at the same time, and the videos they work on (SpecPaths)
NumJobs == 2
NumVideos == 2
\* add_memory calls of two users' sessions on one store (SpecStore)
MaxStoreAdds == 4
\* is_allowed calls of a lone sequence of requests (SpecRateSeq, SpecRateClock)
MaxSeqChecks == 5
\* changes of the wall clock explored in one behaviour (SpecRateClock)
MaxClockSteps == 4

\* users owning memory entries (SpecMem, SpecMemSeq)
NumUsers == 2
\* add_memory coroutines that may be in flight at once (SpecMem)
NumProcs == 2
\* add_memory calls explored in one behaviour of SpecMem
MaxAdds == 3
\* add_memory calls explored in one behaviour of SpecMemSeq
MaxSeqAdds == 2
\* add_memory calls explored in one behaviour of SpecSearch
MaxSearchAdds == 2
\* users explored in SpecSearch
NumSearchUsers == 1
\* messages with a TikTok URL handled in SpecPipe
MaxRuns == 3
\* analyze_content calls followed in SpecAnalyze
MaxAnalyzeCalls == 2
\* largest top_k passed to search_memory
MaxTopK == 1

(* ------------------------- program constants -------------------------- *)
\* settings.memory_max_entries (configurable)
MemoryMaxEntries == 2
\* match_threshold = 0.5, in thousandths
MatchThreshold == 500
\* for attempt in range(3)
MaxAttempts == 3
\* settings.max_file_size_mb
MaxFileSizeMb == 50
\* settings.max_audio_duration_minutes
MaxAudioDurationMinutes == 10
\* settings.max_requests_per_minute (configurable; the shipped default is 5)
MaxPerMinute == 2
\* settings.max_requests_per_hour (configurable; the shipped default is 20)
MaxPerHour == 3
\* minute_ago = current_time - 60
MinuteWindow == 60
\* hour_ago = current_time - 3600, and the pruning age
HourWindow == 3600

\* users whose requests reach the rate limiter (SpecRate)
NumRateUsers == 1

RateUsers == 1..NumRateUsers
\* lastCheck before any is_allowed call
NoCheck == [user |-> 0, time |-> 0, before |-> <<>>, allowed |-> TRUE, reason |-> ""]

Handlers == 1..NumHandlers
Users == 1..NumUsers
SearchUsers == 1..NumSearchUsers
Procs == 1..NumProcs
\* transcripts: word sequences (lower-cased)
Contents == {<<"a">>, <<"a", "b">>, <<"b", "a">>}
\* model answers stored with a transcript
Analyses == {<<"x">>, <<"y", "a">>}
\* search queries
Queries == {<<"a">>, <<"a", "b">>, <<"a", "x">>}
\* lastAdd before any add_memory call returned
NoAdd == [n |-> 0, user |-> 0, content |-> <<>>, analysis |-> <<>>, ret |-> FALSE,
          fault |-> "none", evicted |-> 0]
\* acall of an idle add_memory slot
NoCall == [user |-> 0, content |-> <<>>, analysis |-> <<>>]
\* sres while no cmd_ask holds search results
NoReply == [tenths |-> 0, limit |-> 0]
NoAnalysis == "<none>"
NoSearch == [user |-> 0, query |-> <<>>, top_k |-> 0, path |-> "none", kwFailed |-> FALSE,
             rows |-> <<>>]

VARIABLES
  \* ---- MemoryStore ----
  table,          \* the Supabase table: a set of rows
  nextId,         \* the next row id, also the logical time of created_at
  apc,            \* add_memory call -> "idle" | "embedding" (awaiting _get_embedding)
  acall,          \* in-flight add_memory call -> its arguments
  lastAdd,        \* history: the add_memory call that returned last
  nadds,          \* number of add_memory calls started
  sres,           \* the results cmd_ask holds after search_memory returned
  removed,        \* history: <<user, content_hash>> of every row deleted so far
  \* ---- RateLimiter ----
  now,            \* time.time(), in seconds; non-decreasing
  user_requests,  \* RateLimiter.user_requests: user -> deque of timestamps
  hpc,            \* handler -> "idle" | "running" (admitted, awaiting the pipeline)
  huser,          \* running handler -> the user whose message it processes (0: idle)
  admitted,       \* history: user -> every timestamp ever admitted, in order
  lastCheck,      \* history: the most recent is_allowed call
  nchecks,        \* number of is_allowed calls so far
  nticks,         \* number of clock advances so far
  \* ---- handle_tiktok_url ----
  ppc,            \* position of the run: "idle" | "subs" | "audio" | "validate" |
                  \*   "analyze" | "memory" | "cleanup" | "done"
  run,            \* number of the current run (0: none yet)
  disk,           \* the files in settings.workdir
  temp_files,     \* the handler's temp_files list
  text_content,   \* "none" (None) | "empty" | "short" (under 10 characters) | "ok"
  client,         \* the run's OpenAIClient: "none" | "open" | "closed"
  outcome,        \* how the last run ended
  video,          \* the duration of the run's video, in seconds (0: no run)
  subs,           \* history: what extract_subtitles did in this run ("none": not called)
  audio,          \* history: what extract_audio_transcript did ("none": not called)
  delivered,      \* history: the analysis of this run was sent to the user
  answer,         \* history: what Step 5 told the user
  result,         \* the handler's local analysis, "none" before Step 4 returns
  closes,         \* history: number of openai_client.close() calls in this run
  reply,          \* the duration-exceeded or size-limit message of this run, if sent
  invoked,        \* history: the stages this run has called ("memory_disabled":
                  \* Step 6 found settings.memory_enabled off)
  fsm,            \* the user's FSM state: "none" | "processing"
  \* ---- OpenAIClient.analyze_text / VideoProcessor.analyze_content ----
  anpc,           \* "idle" | "primary" | "secondary" | "backoff" | "returned"
  anText,         \* the text argument of the call: "" or "text"
  attempt,        \* the loop variable of analyze_text
  requests,       \* history: the model requests of this call and how each ended
  slept,          \* history: seconds spent in asyncio.sleep during this call
  analysis,       \* what analyze_text returned (NoAnalysis: nothing yet)
  analysis_path,  \* analyze_content wrote the analysis file and returns its path
  ncalls          \* number of analyze_content calls so far

VARIABLES
  \* YtDlpClient.download_subtitles
  dpc,            \* position in the call: "idle" | "probed" | "returned"
  available_subs, \* the list probe_subtitles returned
  chosen          \* how the subtitles are fetched: kind "track" (the track handed
                  \* to _download_specific_subtitle), "forced"
                  \* (_download_auto_subtitles), "none" before the choice
VARIABLES
  \* transcribe_with_openai_whisper_api, STTEngine._transcribe_openai_api
  tpc,            \* position in the call: "idle" | "returned"
  resp_segments,  \* resp.segments of the provider's response
  segments        \* Transcript.segments
VARIABLES
  \* the files of settings.workdir, for runs in flight at the same time
  jpc,            \* position of each run: "idle" | "subs" | "download" |
                  \* "transcribe" | "analyze" | "cleanup"
  jvideo,         \* the video each run works on (its title), 0 when idle
  jfiles,         \* temp_files of each run
  workdir         \* the paths that exist in settings.workdir

rateVars == <<now, user_requests, hpc, huser, admitted, lastCheck, nchecks, nticks>>
memVars == <<table, nextId, apc, acall, lastAdd, nadds, sres, removed>>
pipeVars == <<ppc, run, disk, temp_files, text_content, client, outcome,
              video, subs, audio, delivered, answer, result, closes, reply, invoked, fsm>>
analyzeVars == <<anpc, anText, attempt, requests, slept, analysis, analysis_path, ncalls>>
subsVars == <<dpc, available_subs, chosen>>
segVars == <<tpc, resp_segments, segments>>
pathVars == <<jpc, jvideo, jfiles, workdir>>
libVars == <<subsVars, segVars, pathVars>>
vars == <<rateVars, memVars, pipeVars, analyzeVars, libVars>>
\* what each part of the program leaves alone
notRate == <<memVars, pipeVars, analyzeVars, libVars>>
notMem == <<rateVars, pipeVars, analyzeVars, libVars>>
notAnalyze == <<rateVars, memVars, pipeVars, libVars>>
notLib == <<rateVars, memVars, pipeVars, analyzeVars>>
notSubs == <<notLib, segVars, pathVars>>
notSegs == <<notLib, subsVars, pathVars>>
notPaths == <<notLib, subsVars, segVars>>
rateOnly == <<now, hpc, huser, admitted, lastCheck, nchecks, nticks>>
rateRest == <<rateOnly, analyzeVars, libVars>>
notPipe == <<rateRest, memVars>>

\* the state of each part after construction
RateIdle ==
  /\ now = 0
  /\ user_requests = [u \in RateUsers |-> <<>>]
  /\ hpc = [p \in Handlers |-> "idle"]
  /\ huser = [p \in Handlers |-> 0]
  /\ admitted = [u \in RateUsers |-> <<>>]
  /\ lastCheck = NoCheck
  /\ nchecks = 0
  /\ nticks = 0
MemIdle ==
  /\ table = {}
  /\ nextId = 1
  /\ apc = [p \in Procs |-> "idle"]
  /\ acall = [p \in Procs |-> NoCall]
  /\ lastAdd = NoAdd
  /\ nadds = 0
  /\ sres = NoSearch
  /\ removed = {}

PipeIdle ==
  /\ ppc = "idle"
  /\ run = 0
  /\ disk = {}
  /\ temp_files = {}
  /\ text_content = "none"
  /\ client = "none"
  /\ outcome = "none"
  /\ video = 0
  /\ subs = "none"
  /\ audio = "none"
  /\ delivered = FALSE
  /\ answer = "none"
  /\ result = "none"
  /\ closes = 0
  /\ reply = NoReply
  /\ invoked = {}
  /\ fsm = "none"

Jobs == 1..NumJobs
Videos == 1..NumVideos
NoTrack == [kind |-> "none", lang |-> <<>>, auto |-> FALSE]
LibIdle ==
  /\ dpc = "idle"
  /\ available_subs = <<>>
  /\ chosen = NoTrack
  /\ tpc = "idle"
  /\ resp_segments = <<>>
  /\ segments = <<>>
  /\ jpc = [r \in Jobs |-> "idle"]
  /\ jvideo = [r \in Jobs |-> 0]
  /\ jfiles = [r \in Jobs |-> {}]
  /\ workdir = {}

AnalyzeIdle ==
  /\ anpc = "idle"
  /\ anText = ""
  /\ attempt = 0
  /\ requests = <<>>
  /\ slept = 0
  /\ analysis = NoAnalysis
  /\ analysis_path = FALSE
  /\ ncalls = 0

\* the clock advances explored: half a minute, a minute, and what is left of an hour
Deltas == {MinuteWindow \div 2, MinuteWindow, HourWindow - MinuteWindow}

(* --------------------------- RateLimiter ------------------------------ *)
RECURSIVE PopOld(_, _)
\* while user_requests and current_time - user_requests[0] > 3600: popleft()
PopOld(q, t) ==
  IF q # <<>> /\ t - Head(q) > HourWindow THEN PopOld(Tail(q), t) ELSE q

\* sum(1 for req_time in user_requests if req_time > minute_ago)
RecentMinute(q, t) == Cardinality({i \in DOMAIN q : q[i] > t - MinuteWindow})
\* sum(1 for req_time in user_requests if req_time > hour_ago)
RecentHour(q, t) == Cardinality({i \in DOMAIN q : q[i] > t - HourWindow})

MinuteLimitHit_OffByOne(q, t) == RecentMinute(q, t) > MaxPerMinute
MinuteLimitHit_Never(q, t) == FALSE
MinuteLimitHit_WholeDeque(q, t) == Len(q) >= MaxPerMinute
\* if recent_minute >= self.max_per_minute
MinuteLimitHit(q, t) == RecentMinute(q, t) >= MaxPerMinute

HourLimitHit_OffByOne(q, t) == RecentHour(q, t) > MaxPerHour
\* if recent_hour >= self.max_per_hour
HourLimitHit(q, t) == RecentHour(q, t) >= MaxPerHour

\* a limiter that records the attempt before it checks the limits
IsAllowed_RecordFirst(reqs, t) ==
  LET q == Append(PopOld(reqs, t), t) IN
  IF RecentMinute(q, t) > MaxPerMinute
    THEN [allowed |-> FALSE, reason |-> "minute", reqs |-> q]
  ELSE IF RecentHour(q, t) > MaxPerHour
    THEN [allowed |-> FALSE, reason |-> "hour", reqs |-> q]
  ELSE [allowed |-> TRUE, reason |-> "", reqs |-> q]

\* RateLimiter.is_allowed on the deque reqs at time t: the verdict, the reason
\* and the deque it leaves behind
IsAllowed(reqs, t) ==
  LET q == PopOld(reqs, t) IN
  IF MinuteLimitHit(q, t)
    THEN [allowed |-> FALSE, reason |-> "minute", reqs |-> q]
  ELSE IF HourLimitHit(q, t)
    THEN [allowed |-> FALSE, reason |-> "hour", reqs |-> q]
  ELSE [allowed |-> TRUE, reason |-> "", reqs |-> Append(q, t)]

\* a handler in which a suspension point separates the check from the append
HandleArrive_Split(p, u) ==
  \/ /\ hpc[p] = "idle"
     /\ nchecks < MaxChecks
     /\ LET r == IsAllowed(user_requests[u], now) IN
          /\ hpc' = [hpc EXCEPT ![p] = IF r.allowed THEN "checked" ELSE "idle"]
          /\ huser' = [huser EXCEPT ![p] = IF r.allowed THEN u ELSE 0]
          /\ lastCheck' = [user |-> u, time |-> now, before |-> user_requests[u],
                           allowed |-> r.allowed, reason |-> r.reason]
     /\ nchecks' = nchecks + 1
     /\ UNCHANGED <<now, user_requests, admitted, nticks, notRate>>
  \/ /\ hpc[p] = "checked"
     /\ huser[p] = u
     /\ user_requests' = [user_requests EXCEPT ![u] = Append(@, now)]
     /\ admitted' = [admitted EXCEPT ![u] = Append(@, now)]
     /\ hpc' = [hpc EXCEPT ![p] = "running"]
     /\ UNCHANGED <<now, huser, lastCheck, nchecks, nticks, notRate>>

\* handle_tiktok_url up to its first suspension point: the message of user u
\* reaches handler p, which calls rate_limiter.is_allowed(user_id) and either
\* returns (rejected: only the wait message is sent) or goes on to the pipeline
HandleArrive(p, u) ==
  /\ hpc[p] = "idle"
  /\ nchecks < MaxChecks
  /\ LET r == IsAllowed(user_requests[u], now) IN
       /\ user_requests' = [user_requests EXCEPT ![u] = r.reqs]
       /\ hpc' = [hpc EXCEPT ![p] = IF r.allowed THEN "running" ELSE "idle"]
       /\ huser' = [huser EXCEPT ![p] = IF r.allowed THEN u ELSE 0]
       /\ admitted' = [admitted EXCEPT ![u] = IF r.allowed THEN Append(@, now) ELSE @]
       /\ lastCheck' = [user |-> u, time |-> now, before |-> user_requests[u],
                        allowed |-> r.allowed, reason |-> r.reason]
  /\ nchecks' = nchecks + 1
  /\ UNCHANGED <<now, nticks, notRate>>

\* the admitted handler finishes its run (any exit of the try block)
HandleFinish(p) ==
  /\ hpc[p] = "running"
  /\ hpc' = [hpc EXCEPT ![p] = "idle"]
  /\ huser' = [huser EXCEPT ![p] = 0]
  /\ UNCHANGED <<now, user_requests, admitted, lastCheck, nchecks, nticks, notRate>>

\* time passes between two steps of the event loop
Tick(d) ==
  /\ nticks < MaxTicks
  /\ now' = now + d
  /\ nticks' = nticks + 1
  /\ UNCHANGED <<user_requests, hpc, huser, admitted, lastCheck, nchecks, notRate>>

RateInit == RateIdle /\ MemIdle /\ PipeIdle /\ AnalyzeIdle /\ LibIdle

RateNext ==
  \/ \E p \in Handlers, u \in RateUsers : HandleArrive(p, u)
  \/ \E p \in Handlers : HandleFinish(p)
  \/ \E d \in Deltas : Tick(d)

SpecRate == RateInit /\ [][RateNext]_vars

\* rate_limiter.is_allowed(u) called at time now, the requests of the user
\* coming one after the other
CheckCall(u) ==
  /\ LET r == IsAllowed(user_requests[u], now) IN
       /\ user_requests' = [user_requests EXCEPT ![u] = r.reqs]
       /\ admitted' = [admitted EXCEPT ![u] = IF r.allowed THEN Append(@, now) ELSE @]
       /\ lastCheck' = [user |-> u, time |-> now, before |-> user_requests[u],
                        allowed |-> r.allowed, reason |-> r.reason]
  /\ nchecks' = nchecks + 1
  /\ UNCHANGED <<now, hpc, huser, nticks, notRate>>

RateSeqNext ==
  \/ \E u \in RateUsers : nchecks < MaxSeqChecks /\ CheckCall(u)
  \/ \E d \in Deltas : Tick(d)

SpecRateSeq == RateInit /\ [][RateSeqNext]_vars

\* the changes of the wall clock explored: most of an hour forward or back
ClockSteps == {HourWindow - MinuteWindow, MinuteWindow - HourWindow}

\* time.time() is the wall clock: it moves forward with time, and a clock
\* adjustment sets it back
ClockStep(d) ==
  /\ nticks < MaxClockSteps
  /\ now + d >= 0
  /\ now' = now + d
  /\ nticks' = nticks + 1
  /\ UNCHANGED <<user_requests, hpc, huser, admitted, lastCheck, nchecks, notRate>>

RateClockNext ==
  \/ \E u \in RateUsers : nchecks < MaxSeqChecks /\ CheckCall(u)
  \/ \E d \in ClockSteps : ClockStep(d)

SpecRateClock == RateInit /\ [][RateClockNext]_vars

(* --------------------------- MemoryStore ------------------------------ *)
\* hashlib.md5(content.encode()).hexdigest()[:16]: a digest, so distinct
\* contents can share it (here the two two-word transcripts do)
ContentHash(c) == Len(c)

\* the embedding provider's vector for a text, as the set of its words
Embed(text) == {text[i] : i \in DOMAIN text}
\* a stored row without a vector (embedding = None)
NoEmbedding == {"-"}

UserRows_AnyUser(t, u) == t
HasHash_Ever(t, u, h) ==
  \/ \E r \in t : r.user = u /\ r.hash = h
  \/ <<u, h>> \in removed
\* .eq("user_id", user_id)
UserRows(t, u) == {r \in t : r.user = u}
\* select("id").eq("user_id", u).eq("content_hash", h): existing.data is not empty
HasHash(t, u, h) == \E r \in t : r.user = u /\ r.hash = h

HashOf_ContentAndAnalysis(c, a) == Len(c) + Len(a) + (IF a[1] = "x" THEN 0 ELSE 4)
\* content_hash = self._content_hash(content): the analysis plays no part
HashOf(c, a) == ContentHash(c)

NewRow_HashFromEmbedding(id, u, c, a, embOK) ==
  [id |-> id, user |-> u, hash |-> IF embOK THEN HashOf(c, a) ELSE 0, content |-> c,
   analysis |-> a, emb |-> IF embOK THEN Embed(c \o a) ELSE NoEmbedding, created_at |-> id]
\* the entry dict of add_memory, as the row the insert stores
NewRow(id, u, c, a, embOK) ==
  [id |-> id, user |-> u, hash |-> HashOf(c, a), content |-> c, analysis |-> a,
   emb |-> IF embOK THEN Embed(c \o a) ELSE NoEmbedding, created_at |-> id]

RECURSIVE OldestIds(_, _)
\* select("id").eq("user_id", u).order("created_at", desc=False).limit(k),
\* given the user's rows
OldestIds(rows, k) ==
  IF k <= 0 \/ rows = {} THEN {}
  ELSE LET r == CHOOSE x \in rows : \A y \in rows : x.created_at <= y.created_at
       IN {r.id} \cup OldestIds(rows \ {r}, k - 1)

RECURSIVE NewestIds(_, _)
\* the same query with the order reversed
NewestIds(rows, k) ==
  IF k <= 0 \/ rows = {} THEN {}
  ELSE LET r == CHOOSE x \in rows : \A y \in rows : x.created_at >= y.created_at
       IN {r.id} \cup NewestIds(rows \ {r}, k - 1)

EvictionChoice_Newest(rows, k) == NewestIds(rows, k)
\* oldest.data of _enforce_max_entries
EvictionChoice(rows, k) == OldestIds(rows, k)

\* _enforce_max_entries(user_id) on table t; f names the backend call that
\* raises, if any ("count", "select", "delete"). The except clause logs and
\* returns, so a failure leaves the table as it was.
EnforceMaxEntries(t, u, f) ==
  IF f = "count" THEN [table |-> t, failed |-> TRUE]
  ELSE LET total == Cardinality(UserRows(t, u)) IN
    IF total > MemoryMaxEntries
      THEN IF f = "select" THEN [table |-> t, failed |-> TRUE]
           ELSE LET ids == EvictionChoice(UserRows(t, u), total - MemoryMaxEntries) IN
             IF ids # {}
               THEN IF f = "delete" THEN [table |-> t, failed |-> TRUE]
                    ELSE [table |-> {r \in t : r.id \notin ids}, failed |-> FALSE]
               ELSE [table |-> t, failed |-> FALSE]
      ELSE [table |-> t, failed |-> FALSE]

AddFaults == {"none", "insert", "count", "select", "delete"}

\* add_memory from its entry to the await of _get_embedding: the duplicate
\* lookup (lookupFails: the select raises, caught by the outer except)
AddStartCall(p, u, c, a, lookupFails) ==
  /\ apc[p] = "idle"
  /\ nadds' = nadds + 1
  /\ IF lookupFails \/ HasHash(table, u, HashOf(c, a))
       THEN /\ lastAdd' = [n |-> lastAdd.n + 1, user |-> u, content |-> c,
                           analysis |-> a, ret |-> FALSE,
                           fault |-> IF lookupFails THEN "lookup" ELSE "none",
                           evicted |-> 0]
            /\ UNCHANGED <<apc, acall>>
       ELSE /\ apc' = [apc EXCEPT ![p] = "embedding"]
            /\ acall' = [acall EXCEPT ![p] = [user |-> u, content |-> c, analysis |-> a]]
            /\ UNCHANGED lastAdd
  /\ UNCHANGED <<table, nextId, sres, removed>>

\* an add_memory call made on its own, outside a pipeline run
AddStart(p, u, c, a, lookupFails) ==
  AddStartCall(p, u, c, a, lookupFails) /\ UNCHANGED notMem

\* add_memory from the return of _get_embedding (embOK: a vector; otherwise
\* the empty list) to its return: insert, then _enforce_max_entries; f names
\* the backend call that raises, if any
AddResumeCall(p, embOK, f) ==
  /\ apc[p] = "embedding"
  /\ LET u == acall[p].user
         c == acall[p].content
         a == acall[p].analysis
         ev == EnforceMaxEntries(table \cup {NewRow(nextId, u, c, a, embOK)}, u, f)
     IN IF f = "insert"
          THEN /\ lastAdd' = [n |-> lastAdd.n + 1, user |-> u, content |-> c,
                              analysis |-> a, ret |-> FALSE, fault |-> "insert",
                              evicted |-> 0]
               /\ UNCHANGED <<table, nextId, removed>>
          ELSE /\ table' = ev.table
               /\ removed' = removed \cup {<<r.user, r.hash>> : r \in table \ ev.table}
               /\ nextId' = nextId + 1
               /\ lastAdd' = [n |-> lastAdd.n + 1, user |-> u, content |-> c,
                              analysis |-> a, ret |-> TRUE,
                              fault |-> IF ev.failed THEN "evict" ELSE "none",
                              evicted |-> Cardinality(table) + 1 - Cardinality(ev.table)]
  /\ apc' = [apc EXCEPT ![p] = "idle"]
  /\ acall' = [acall EXCEPT ![p] = NoCall]
  /\ UNCHANGED <<nadds, sres>>

\* the same, outside a pipeline run
AddResume(p, embOK, f) ==
  AddResumeCall(p, embOK, f) /\ UNCHANGED notMem

\* clear_memory(user_id): delete().eq("user_id", user_id)
ClearMemory(u) ==
  /\ UserRows(table, u) # {}
  /\ table' = table \ UserRows(table, u)
  /\ removed' = removed \cup {<<r.user, r.hash>> : r \in UserRows(table, u)}
  /\ lastAdd' = IF lastAdd.user = u THEN [lastAdd EXCEPT !.user = 0] ELSE lastAdd
  /\ UNCHANGED <<nextId, apc, acall, nadds, sres, notMem>>

MemInit == RateIdle /\ MemIdle /\ PipeIdle /\ AnalyzeIdle /\ LibIdle

\* concurrent use: the analysis text and the embedding provider's outcome
\* play no part in the duplicate check and the eviction, so one of each
ConcurrentAnalyses == {<<"x">>}
ConcurrentEmbeddings == {TRUE}

MemNext ==
  \/ \E p \in Procs, u \in Users, c \in Contents, a \in ConcurrentAnalyses, lf \in BOOLEAN :
       nadds < MaxAdds /\ AddStart(p, u, c, a, lf)
  \/ \E p \in Procs, e \in ConcurrentEmbeddings, f \in AddFaults : AddResume(p, e, f)
  \/ \E u \in Users : ClearMemory(u)

SpecMem == MemInit /\ [][MemNext]_vars

(* ------------------------ MemoryStore: search -------------------------- *)
Min(a, b) == IF a <= b THEN a ELSE b

\* column ILIKE '%q%' on word sequences: q occurs as a contiguous run of words
ILike(q, text) ==
  \E i \in 1..(Len(text) - Len(q) + 1) : SubSeq(text, i, i + Len(q) - 1) = q

\* .eq("user_id", u).or_("content.ilike.%q%,analysis.ilike.%q%")
KeywordMatches(t, u, q) ==
  {r \in UserRows(t, u) : ILike(q, r.content) \/ ILike(q, r.analysis)}

KeywordResults_NoLimit(t, u, q, k) == {KeywordMatches(t, u, q)}
\* the row sets the query may return under .limit(top_k): no order is
\* requested, so any top_k of the matching rows
KeywordResults(t, u, q, k) ==
  {S \in SUBSET KeywordMatches(t, u, q) :
     Cardinality(S) = Min(k, Cardinality(KeywordMatches(t, u, q)))}

RECURSIVE ById(_)
ById_Scored(S) ==
  IF S = {} THEN <<>>
  ELSE LET r == CHOOSE x \in S : \A y \in S : x.id <= y.id
       IN <<[id |-> r.id, similarity |-> MatchThreshold]>> \o ById(S \ {r})
\* the rows of S as result dicts, in id order
ById(S) ==
  IF S = {} THEN <<>>
  ELSE LET r == CHOOSE x \in S : \A y \in S : x.id <= y.id
       IN <<[id |-> r.id, similarity |-> 0]>> \o ById(S \ {r})

\* cosine similarity of two vectors, in thousandths
Similarity(qe, e) == (1000 * Cardinality(qe \cap e)) \div Cardinality(qe \cup e)

RECURSIVE BySimilarity(_, _)
\* the rows of S ordered by descending similarity to qe
BySimilarity(S, qe) ==
  IF S = {} THEN <<>>
  ELSE LET r == CHOOSE x \in S : \A y \in S :
                  \/ Similarity(qe, x.emb) > Similarity(qe, y.emb)
                  \/ Similarity(qe, x.emb) = Similarity(qe, y.emb) /\ x.id <= y.id
       IN <<[id |-> r.id, similarity |-> Similarity(qe, r.emb)]>>
            \o BySimilarity(S \ {r}, qe)

\* rpc("match_memories", {query_embedding, match_user_id, match_threshold,
\* match_count}): the user's rows with a vector whose similarity reaches the
\* threshold, best first, at most match_count of them
MatchMemories(t, qe, u, threshold, k) ==
  LET hits == {r \in UserRows(t, u) :
                 r.emb # NoEmbedding /\ Similarity(qe, r.emb) >= threshold}
      ranked == BySimilarity(hits, qe)
  IN SubSeq(ranked, 1, Min(k, Len(ranked)))

\* _keyword_search(user_id, query, top_k) returning the rows S, or [] when the
\* query raises
KeywordSearch(S, kwFails) == IF kwFails THEN <<>> ELSE ById(S)

\* what the providers do during one search_memory call: embOK, _get_embedding
\* returns a vector; rpcFails, the RPC raises; kwFails, the keyword query
\* raises (a flag is FALSE when the call it describes is not made)
SearchEnvs ==
  {e \in [embOK : BOOLEAN, rpcFails : BOOLEAN, kwFails : BOOLEAN] :
     /\ ~e.embOK => ~e.rpcFails
     /\ (e.embOK /\ ~e.rpcFails) => ~e.kwFails}
\* the row sets the keyword query of that call may return
KeywordReturns(t, u, q, k, e) ==
  IF (e.embOK /\ ~e.rpcFails) \/ e.kwFails THEN {{}} ELSE KeywordResults(t, u, q, k)

\* search_memory(u, q, k) on table t under e, S being the rows its keyword
\* query returns
SearchResult(t, u, q, k, e, S) ==
  IF ~e.embOK
    THEN [user |-> u, query |-> q, top_k |-> k, path |-> "keyword",
          kwFailed |-> e.kwFails, rows |-> KeywordSearch(S, e.kwFails)]
  ELSE IF e.rpcFails
    THEN [user |-> u, query |-> q, top_k |-> k, path |-> "keyword_on_error",
          kwFailed |-> e.kwFails, rows |-> KeywordSearch(S, e.kwFails)]
  ELSE [user |-> u, query |-> q, top_k |-> k, path |-> "vector", kwFailed |-> FALSE,
        rows |-> MatchMemories(t, Embed(q), u, MatchThreshold, k)]

\* cmd_ask up to the return of search_memory(u, q, k) under e, S being the
\* rows its keyword query returns
SearchMemory(u, q, k, e, S) ==
  /\ sres = NoSearch
  /\ apc[1] = "idle"
  /\ sres' = SearchResult(table, u, q, k, e, S)
  /\ UNCHANGED <<table, nextId, apc, acall, lastAdd, nadds, removed, notMem>>

\* cmd_ask after the search: it answers from the results and returns
SearchDone ==
  /\ sres # NoSearch
  /\ sres' = NoSearch
  /\ UNCHANGED <<table, nextId, apc, acall, lastAdd, nadds, removed, notMem>>

\* sequential use: one add_memory call at a time, and clear_memory
MemSeqNext ==
  \/ \E u \in Users, c \in Contents, a \in Analyses, lf \in BOOLEAN :
       nadds < MaxSeqAdds /\ AddStart(1, u, c, a, lf)
  \/ \E e \in BOOLEAN, f \in AddFaults : AddResume(1, e, f)
  \/ \E u \in Users : ClearMemory(u)

SpecMemSeq == MemInit /\ [][MemSeqNext]_vars

\* the backend faults met by the add_memory calls that fill the table
\* searched: none, or an eviction that fails and leaves the user above the cap
SearchAddFaults == {"none", "count"}

\* sequential use: one add_memory or cmd_ask call at a time
SearchNext ==
  \/ \E u \in SearchUsers, c \in Contents, a \in Analyses, lf \in {FALSE} :
       nadds < MaxSearchAdds /\ sres = NoSearch /\ AddStart(1, u, c, a, lf)
  \/ \E e \in BOOLEAN, f \in SearchAddFaults : AddResume(1, e, f)
  \/ \E u \in SearchUsers, q \in Queries, k \in 1..MaxTopK, e \in SearchEnvs :
       \E S \in KeywordReturns(table, u, q, k, e) : SearchMemory(u, q, k, e, S)
  \/ SearchDone

SpecSearch == MemInit /\ [][SearchNext]_vars

\* user_id of the caller and of one other user of the same table
StoreUsers == {1, 2}
\* transcripts with three different digests
StoreContents == {<<"a">>, <<"a", "b">>, <<"a", "b", "a">>}
\* the add_memory calls of the users' sessions meet no backend fault
StoreAddFaults == {"none"}

\* two users' sessions on one store, one call at a time: add_memory and
\* clear_memory; search_memory reads the table and leaves it as it is
StoreNext ==
  \/ \E u \in StoreUsers, c \in StoreContents, a \in ConcurrentAnalyses, lf \in {FALSE} :
       nadds < MaxStoreAdds /\ AddStart(1, u, c, a, lf)
  \/ \E e \in ConcurrentEmbeddings, f \in StoreAddFaults : AddResume(1, e, f)
  \/ \E u \in StoreUsers : apc[1] = "idle" /\ ClearMemory(u)

SpecStore == MemInit /\ [][StoreNext]_vars

(* ----------------------- YtDlpClient.download_subtitles ---------------- *)
\* language codes of the tracks yt-dlp reports, letter by letter
LangCodes == {<<"original">>, <<"E", "N">>, <<"e", "n", "-", "U", "S">>, <<"f", "r">>}
\* the suffix probe_subtitles gives an automatic caption
AutoSuffix == <<"-", "auto">>
\* lang_preference = ['original', 'en', 'auto']
LangPreference == << <<"original">>, <<"e", "n">>, <<"auto">> >>

\* str.lower() on the letters in use
Lower(l) ==
  [i \in DOMAIN l |-> IF l[i] = "E" THEN "e" ELSE IF l[i] = "N" THEN "n"
                       ELSE IF l[i] = "U" THEN "u" ELSE IF l[i] = "S" THEN "s" ELSE l[i]]
\* q in text, for strings
Contains(q, text) ==
  \E k \in 0..(Len(text) - Len(q)) : \A i \in DOMAIN q : text[k + i] = q[i]

\* the lists over S of at most n elements
RECURSIVE SeqsUpTo(_, _)
SeqsUpTo(S, n) ==
  IF n = 0 THEN {<<>>}
  ELSE LET shorter == SeqsUpTo(S, n - 1) IN
       shorter \cup {Append(q, x) : q \in {r \in shorter : Len(r) = n - 1}, x \in S}

\* the list probe_subtitles builds from info['subtitles'] and
\* info['automatic_captions']: the manual tracks, then the automatic ones
\* with "-auto" appended to the language
ProbedList(manual, automatic) ==
  [i \in 1..Len(manual) |-> [lang |-> manual[i], auto |-> FALSE]]
    \o [i \in 1..Len(automatic) |-> [lang |-> automatic[i] \o AutoSuffix, auto |-> TRUE]]

\* the first track of tracks whose lowered language contains pref, 0 if none
FirstMatch(tracks, pref) ==
  IF \E i \in DOMAIN tracks : Contains(pref, Lower(tracks[i].lang))
    THEN CHOOSE i \in DOMAIN tracks :
           /\ Contains(pref, Lower(tracks[i].lang))
           /\ \A j \in 1..(i - 1) : ~Contains(pref, Lower(tracks[j].lang))
    ELSE 0

RECURSIVE ByPreference(_, _)
\* for pref_lang in lang_preference: for sub in available_subs: ...; then
\* available_subs[0]
ByPreference(tracks, prefs) ==
  IF prefs = <<>> THEN 1
  ELSE IF FirstMatch(tracks, Head(prefs)) # 0 THEN FirstMatch(tracks, Head(prefs))
  ELSE ByPreference(tracks, Tail(prefs))

\* a selection with the loops the other way round: the first track that
\* matches any preference
ChooseTrack_TrackFirst(tracks) ==
  IF \E i \in DOMAIN tracks : \E k \in DOMAIN LangPreference :
          Contains(LangPreference[k], Lower(tracks[i].lang))
    THEN CHOOSE i \in DOMAIN tracks :
           /\ \E k \in DOMAIN LangPreference : Contains(LangPreference[k], Lower(tracks[i].lang))
           /\ \A j \in 1..(i - 1) : \A k \in DOMAIN LangPreference :
                 ~Contains(LangPreference[k], Lower(tracks[j].lang))
    ELSE 1
\* the index of the track download_subtitles hands to
\* _download_specific_subtitle, for a non-empty list
ChooseTrack(tracks) == ByPreference(tracks, LangPreference)

\* available_subs = self.probe_subtitles(url)
ProbeSubtitles(manual, automatic) ==
  /\ dpc = "idle"
  /\ dpc' = "probed"
  /\ available_subs' = ProbedList(manual, automatic)
  /\ chosen' = NoTrack
  /\ UNCHANGED notSubs

\* the rest of download_subtitles
DownloadSubtitles ==
  /\ dpc = "probed"
  /\ dpc' = "returned"
  /\ chosen' = IF available_subs = <<>> THEN [NoTrack EXCEPT !.kind = "forced"]
                ELSE LET t == available_subs[ChooseTrack(available_subs)] IN
                     [kind |-> "track", lang |-> t.lang, auto |-> t.auto]
  /\ UNCHANGED <<available_subs, notSubs>>

\* the call has returned; the next one starts
SubtitlesDone ==
  /\ dpc = "returned"
  /\ dpc' = "idle"
  /\ available_subs' = <<>>
  /\ chosen' = NoTrack
  /\ UNCHANGED notSubs

SubsInit == RateIdle /\ MemIdle /\ PipeIdle /\ AnalyzeIdle /\ LibIdle

SubsNext ==
  \/ \E manual \in SeqsUpTo(LangCodes, MaxTracks), automatic \in SeqsUpTo(LangCodes, MaxTracks) :
       ProbeSubtitles(manual, automatic)
  \/ DownloadSubtitles
  \/ SubtitlesDone

SpecSubs == SubsInit /\ [][SubsNext]_vars

(* ------------------ Whisper response to Transcript --------------------- *)
\* a field of a segment of the response: a number, absent (None), or a value
\* that is not a number (a string)
Num(n) == [tag |-> "num", v |-> n]
Missing == [tag |-> "missing", v |-> 0]
NonNumeric == [tag |-> "str", v |-> 0]
FieldValues == {Num(1), Missing, NonNumeric}
\* the segments a response can hold: objects or dicts with start, end and
\* text, and entries that are neither ("other")
RespSegments ==
  [shape : {"dict"}, start : FieldValues, end : FieldValues, text : {"a", "b"}]
    \cup {[shape |-> "other", start |-> Missing, end |-> Missing, text |-> "a"]}

\* a segment with numbers in start and end
WellFormed(s) == s.shape = "dict" /\ s.start.tag = "num" /\ s.end.tag = "num"

\* float(x) if isinstance(x, (int, float)) else 0.0
AsFloat(f) == IF f.tag = "num" THEN f.v ELSE 0

\* transcribe_with_openai_whisper_api: the list of plain dicts, None (here
\* the empty list, which the engine makes of it) when an entry has neither
\* the attributes nor get()
NormalizeSegments(segs) ==
  IF \E i \in DOMAIN segs : segs[i].shape = "other" THEN <<>>
  ELSE [i \in DOMAIN segs |->
          [start |-> AsFloat(segs[i].start), end |-> AsFloat(segs[i].end),
           text |-> segs[i].text]]

\* STTEngine._transcribe_openai_api: Segment(float(start), float(end), text)
\* for each dict, skipping one whose conversion raises
EngineSegments(dicts) == SelectSeq(dicts, LAMBDA d : d.start >= 0 /\ d.end >= 0)

\* the provider answers and the transcript is built from its response
Transcribe(segs) ==
  /\ tpc = "idle"
  /\ tpc' = "returned"
  /\ resp_segments' = segs
  /\ segments' = EngineSegments(NormalizeSegments(segs))
  /\ UNCHANGED notSegs

\* the transcript has been used; the next call starts
TranscribeDone ==
  /\ tpc = "returned"
  /\ tpc' = "idle"
  /\ resp_segments' = <<>>
  /\ segments' = <<>>
  /\ UNCHANGED notSegs

SegsInit == RateIdle /\ MemIdle /\ PipeIdle /\ AnalyzeIdle /\ LibIdle

SegsNext ==
  \/ \E segs \in SeqsUpTo(RespSegments, MaxSegments) : Transcribe(segs)
  \/ TranscribeDone

SpecSegs == SegsInit /\ [][SegsNext]_vars

(* ---------------------- paths of the temp artifacts -------------------- *)
\* _download_specific_subtitle: outtmpl workdir / title, the file found by
\* glob; vtt_or_srt_to_txt: the same path with .txt
SubtitlePath(v) == [kind |-> "subtitle", key |-> v]
SubtitleTxtPath(v) == [kind |-> "subtitle_txt", key |-> v]
\* download_audio: workdir / f"{title}.mp3" with the suffix .mp4
AudioPath(v) == [kind |-> "audio", key |-> v]
\* extract_audio_transcript: audio_path.with_suffix('.txt')
TranscriptPath(v) == [kind |-> "transcript_txt", key |-> v]
\* analyze_content: f"GPT5_TikTok_Analysis_{int(time.time())}.txt"
AnalysisPath(t) == [kind |-> "analysis", key |-> t]

\* a message with the URL of video v starts run r
RunStart(r, v) ==
  /\ jpc[r] = "idle"
  /\ jpc' = [jpc EXCEPT ![r] = "subs"]
  /\ jvideo' = [jvideo EXCEPT ![r] = v]
  /\ jfiles' = [jfiles EXCEPT ![r] = {}]
  /\ UNCHANGED <<workdir, notPaths>>

\* extract_subtitles: with a track the subtitle file and its text file are
\* written and added to temp_files
RunSubtitles(r, found) ==
  /\ jpc[r] = "subs"
  /\ IF found
       THEN LET made == {SubtitlePath(jvideo[r]), SubtitleTxtPath(jvideo[r])} IN
            /\ workdir' = workdir \cup made
            /\ jfiles' = [jfiles EXCEPT ![r] = @ \cup made]
            /\ jpc' = [jpc EXCEPT ![r] = "analyze"]
       ELSE /\ jpc' = [jpc EXCEPT ![r] = "download"]
            /\ UNCHANGED <<workdir, jfiles>>
  /\ UNCHANGED <<jvideo, notPaths>>

\* extract_audio_transcript up to the await of the transcription: the
\* download, temp_files.append(audio_path)
RunDownload(r) ==
  /\ jpc[r] = "download"
  /\ workdir' = workdir \cup {AudioPath(jvideo[r])}
  /\ jfiles' = [jfiles EXCEPT ![r] = @ \cup {AudioPath(jvideo[r])}]
  /\ jpc' = [jpc EXCEPT ![r] = "transcribe"]
  /\ UNCHANGED <<jvideo, notPaths>>

\* stt_engine.transcribe(audio_path): FileNotFoundError when the file is
\* gone, which ends the run at the handler's except clause; otherwise the
\* transcript file is written
RunTranscribe(r) ==
  /\ jpc[r] = "transcribe"
  /\ IF AudioPath(jvideo[r]) \in workdir
       THEN /\ workdir' = workdir \cup {TranscriptPath(jvideo[r])}
            /\ jfiles' = [jfiles EXCEPT ![r] = @ \cup {TranscriptPath(jvideo[r])}]
            /\ jpc' = [jpc EXCEPT ![r] = "analyze"]
            /\ UNCHANGED jvideo
       ELSE /\ jpc' = [jpc EXCEPT ![r] = "idle"]
            /\ jvideo' = [jvideo EXCEPT ![r] = 0]
            /\ jfiles' = [jfiles EXCEPT ![r] = {}]
            /\ UNCHANGED workdir
  /\ UNCHANGED notPaths

\* analyze_content writes the analysis file, named after the second
RunAnalyze(r) ==
  /\ jpc[r] = "analyze"
  /\ workdir' = workdir \cup {AnalysisPath(now)}
  /\ jfiles' = [jfiles EXCEPT ![r] = @ \cup {AnalysisPath(now)}]
  /\ jpc' = [jpc EXCEPT ![r] = "cleanup"]
  /\ UNCHANGED <<jvideo, notPaths>>

\* cleanup_temp_files(*temp_files) at the end of the run
RunCleanup(r) ==
  /\ jpc[r] = "cleanup"
  /\ workdir' = workdir \ jfiles[r]
  /\ jfiles' = [jfiles EXCEPT ![r] = {}]
  /\ jvideo' = [jvideo EXCEPT ![r] = 0]
  /\ jpc' = [jpc EXCEPT ![r] = "idle"]
  /\ UNCHANGED notPaths

PathsInit == RateIdle /\ MemIdle /\ PipeIdle /\ AnalyzeIdle /\ LibIdle

PathsNext ==
  \/ \E r \in Jobs, v \in Videos : RunStart(r, v)
  \/ \E r \in Jobs, found \in BOOLEAN : RunSubtitles(r, found)
  \/ \E r \in Jobs : RunDownload(r)
  \/ \E r \in Jobs : RunTranscribe(r)
  \/ \E r \in Jobs : RunAnalyze(r)
  \/ \E r \in Jobs : RunCleanup(r)
  \/ \E d \in Deltas : Tick(d)

SpecPaths == PathsInit /\ [][PathsNext]_vars

(* ------------------- analyze_text / analyze_content -------------------- *)
\* the strings analyze_text can return: the model's output to the primary or
\* to the simplified prompt (non-empty after strip), or one of its messages
EmptyResultMessage == "empty_result_message"
ErrorMessage == "error_message"
ExhaustedMessage == "error_after_all_attempts_message"
\* what a model request can do: answer with text, with whitespace only, with
\* no output_text ("" or None), or raise
RequestOutcomes == {"text", "blank", "empty", "raises"}

\* the output_text of a response that came back
OutputText(out) == IF out = "text" THEN " content " ELSE IF out = "blank" THEN " " ELSE ""
Strip_Identity(t) == t
\* str.strip() on the texts of the model
Strip(t) == IF t = " content " THEN "content" ELSE IF t = " " THEN "" ELSE t

\* requests of the given kind made so far in this call
RECURSIVE CountKind(_, _)
CountKind(rs, k) ==
  IF rs = <<>> THEN 0
  ELSE (IF Head(rs).kind = k THEN 1 ELSE 0) + CountKind(Tail(rs), k)

\* not analysis or not analysis.strip()
Blank(a) == a \in {"", " "}
WritesFile_Always(a) == TRUE
\* analyze_content: the file is written unless the analysis is empty or blank
WritesFile(a) == ~Blank(a)

Wait_Constant(att) == 1
\* wait = 2 ** attempt
Wait(att) == 2 ^ att

ShouldRetry_Always(att) == att < MaxAttempts
\* if attempt < 2
ShouldRetry(att) == att < MaxAttempts - 1

\* analyze_content(text, segments) up to the first model request
AnalyzeStartCall(text) ==
  /\ anpc = "idle"
  /\ ncalls' = ncalls + 1
  /\ anText' = text
  /\ anpc' = "primary"
  /\ attempt' = 0
  /\ requests' = <<>>
  /\ slept' = 0
  /\ analysis' = NoAnalysis
  /\ analysis_path' = FALSE

\* the same, called on its own
AnalyzeStart(text) ==
  AnalyzeStartCall(text) /\ UNCHANGED notAnalyze

\* analyze_text returns a and analyze_content finishes
Returns(a) ==
  /\ anpc' = "returned"
  /\ analysis' = a
  /\ analysis_path' = WritesFile(a)
  /\ UNCHANGED <<attempt, slept>>

\* except Exception: sleep and retry, or give up with the error message
OnException ==
  IF ShouldRetry(attempt)
    THEN /\ anpc' = "backoff"
         /\ UNCHANGED <<attempt, slept, analysis, analysis_path>>
    ELSE Returns(ErrorMessage)

\* the primary request of the current attempt ends
PrimaryResponds(out) ==
  /\ anpc = "primary"
  /\ requests' = Append(requests, [kind |-> "primary", out |-> out])
  /\ IF out = "raises" THEN OnException
     \* content = (resp.output_text or "").strip(); if content: return content
     ELSE IF Strip(OutputText(out)) # "" THEN Returns(Strip(OutputText(out)))
     ELSE /\ anpc' = "secondary"
          /\ UNCHANGED <<attempt, slept, analysis, analysis_path>>
  /\ UNCHANGED <<anText, ncalls, notAnalyze>>

\* the request with the simplified prompt ends
SecondaryResponds(out) ==
  /\ anpc = "secondary"
  /\ requests' = Append(requests, [kind |-> "secondary", out |-> out])
  /\ IF out = "raises" THEN OnException
     ELSE IF Strip(OutputText(out)) # "" THEN Returns(Strip(OutputText(out)))
     ELSE Returns(EmptyResultMessage)
  /\ UNCHANGED <<anText, ncalls, notAnalyze>>

\* asyncio.sleep(2 ** attempt) is over: continue with the next attempt, or
\* leave the loop when there is none
BackoffDone ==
  /\ anpc = "backoff"
  /\ slept' = slept + Wait(attempt)
  /\ attempt' = attempt + 1
  /\ IF attempt + 1 < MaxAttempts
       THEN /\ anpc' = "primary"
            /\ UNCHANGED <<analysis, analysis_path>>
       ELSE /\ anpc' = "returned"
            /\ analysis' = ExhaustedMessage
            /\ analysis_path' = WritesFile(ExhaustedMessage)
  /\ UNCHANGED <<anText, requests, ncalls, notAnalyze>>

\* the caller has taken the result; the locals of the call are gone
AnalyzeTaken ==
  /\ anpc = "returned"
  /\ anpc' = "idle"
  /\ anText' = ""
  /\ attempt' = 0
  /\ requests' = <<>>
  /\ slept' = 0
  /\ analysis' = NoAnalysis
  /\ analysis_path' = FALSE
  /\ UNCHANGED ncalls

\* the same, for a call made on its own
AnalyzeDone ==
  AnalyzeTaken /\ UNCHANGED notAnalyze

AnalyzeInit == RateIdle /\ MemIdle /\ PipeIdle /\ AnalyzeIdle /\ LibIdle

AnalyzeNext ==
  \/ \E text \in {"", "text"} : ncalls < MaxAnalyzeCalls /\ AnalyzeStart(text)
  \/ \E out \in RequestOutcomes : PrimaryResponds(out)
  \/ \E out \in RequestOutcomes : SecondaryResponds(out)
  \/ BackoffDone
  \/ AnalyzeDone

SpecAnalyze == AnalyzeInit /\ [][AnalyzeNext]_vars

(* ------------------------- handle_tiktok_url --------------------------- *)
\* a file of settings.workdir: the run that made it and what it holds
File(r, k) == [run |-> r, kind |-> k]
\* cleanup_temp_files(*files): unlink each one that exists
CleanupTempFiles(d, files) == d \ files
\* the return statements inside the outer try: only the finally clause
\* (state.clear()) runs, the workdir is left as it is
LeaveOnReturn(d, files) == d

\* the user whose messages SpecPipe follows
PipeUser == 1
\* video durations in seconds: at the ceiling, just over it, well over it
Durations == {60 * MaxAudioDurationMinutes, 60 * MaxAudioDurationMinutes + 1,
              90 * MaxAudioDurationMinutes}
ProbeOutcomes == {"no_info", "no_duration", "info"}
SubtitleOutcomes == {"no_subtitles", "convert_raises", "empty", "short", "ok"}
AudioOutcomes == {"download_failed", "oversize", "transcribe_raises", "empty", "short", "ok"}
SendOutcomes == {"sent", "bad_request", "raises"}
AnalysisOutcomes == {"ok", "raises"}
MemoryOutcomes == {"disabled", "store_raises", "called"}

\* get_video_info(url) for a video of d seconds: None (-2) when yt-dlp
\* raises, a dict without duration (-1), or a dict with the duration
GetVideoInfo(d, probe) ==
  IF probe = "no_info" THEN -2 ELSE IF probe = "no_duration" THEN -1 ELSE d

\* check_audio_duration(info): duration / 60 > max_audio_duration_minutes
CheckAudioDuration(info) ==
  IF info < 0 THEN TRUE ELSE ~(info > 60 * MaxAudioDurationMinutes)

\* f"{duration / 60:.1f}", in tenths of a minute
MinutesTenths(d) == (10 * d + 30) \div 60

StateAfter_NoClear(pos, f) == f
\* finally: await state.clear(), when the handler is left
StateAfter(pos, f) == IF pos = "done" THEN "none" ELSE f

StagesAtStart_ProbeFirst(allowed) == {"probe"}
\* the metadata probe (get_video_info) comes after the return for a rejected
\* request
StagesAtStart(allowed) == IF allowed THEN {"probe"} ELSE {}

\* handle_tiktok_url from its entry to the first subtitle request, for a
\* video of d seconds: the rate check, the duration probe and the
\* construction of the clients
PipeStart(d, probe, initOK) ==
  /\ ppc = "idle"
  /\ run < MaxRuns
  /\ run' = run + 1
  /\ video' = d
  /\ LET r == IsAllowed(user_requests[PipeUser], now)
         info == GetVideoInfo(d, probe)
     IN
       /\ user_requests' = [user_requests EXCEPT ![PipeUser] = r.reqs]
       /\ IF ~r.allowed
            THEN /\ ppc' = "done"
                 /\ outcome' = "rate_limited"
                 /\ client' = "none"
                 /\ reply' = NoReply
                 /\ fsm' = fsm
          ELSE IF info # -2 /\ ~CheckAudioDuration(info)
            THEN /\ ppc' = "done"
                 /\ outcome' = "too_long"
                 /\ client' = "none"
                 /\ reply' = [tenths |-> MinutesTenths(IF info < 0 THEN 0 ELSE info),
                              limit |-> MaxAudioDurationMinutes]
                 /\ fsm' = fsm
          \* state.set_state(ProcessingStates.processing), then the try block
          ELSE IF ~initOK
            THEN /\ ppc' = "done"
                 /\ outcome' = "init_failed"
                 /\ client' = "none"
                 /\ reply' = NoReply
                 /\ fsm' = StateAfter("done", "processing")
          ELSE /\ ppc' = "subs"
               /\ outcome' = "running"
               /\ client' = "open"
               /\ reply' = NoReply
               /\ fsm' = "processing"
  /\ temp_files' = {}
  /\ text_content' = "none"
  /\ subs' = "none"
  /\ audio' = "none"
  /\ delivered' = FALSE
  /\ answer' = "none"
  /\ result' = "none"
  /\ closes' = 0
  /\ invoked' = StagesAtStart(IsAllowed(user_requests[PipeUser], now).allowed)
  /\ UNCHANGED <<disk, notPipe>>

AfterSubtitles_AlwaysAudio(out) == "audio"
AfterSubtitles_StopOnFailure(out) ==
  IF out \in {"short", "ok"} THEN "validate"
  ELSE IF out = "convert_raises" THEN "done" ELSE "audio"
\* where the handler goes after Step 1
AfterSubtitles(out) == IF out \in {"short", "ok"} THEN "validate" ELSE "audio"

\* Step 1: processor.extract_subtitles(url) and the handler's use of its result
ExtractSubtitles(out) ==
  /\ ppc = "subs"
  /\ subs' = out
  /\ invoked' = invoked \cup {"subtitles"}
  /\ IF out = "no_subtitles"
       THEN UNCHANGED <<disk, temp_files, text_content>>
     ELSE IF out = "convert_raises"
       \* the subtitle file is on disk, vtt_or_srt_to_txt raises, the list
       \* local to extract_subtitles is lost and the handler logs the error
       THEN /\ disk' = disk \cup {File(run, "subtitle")}
            /\ UNCHANGED <<temp_files, text_content>>
     ELSE /\ disk' = disk \cup {File(run, "subtitle"), File(run, "subtitle_txt")}
          /\ temp_files' = temp_files \cup {File(run, "subtitle"), File(run, "subtitle_txt")}
          /\ text_content' = out
  /\ ppc' = AfterSubtitles(out)
  /\ fsm' = StateAfter(ppc', fsm)
  /\ UNCHANGED <<run, client, outcome, video, audio, delivered, answer, result, closes, reply,
                 user_requests, notPipe>>

TranscriberCalled_Always(out) == TRUE
\* extract_audio_transcript reaches stt_engine.transcribe only with a
\* downloaded file that passed check_file_size
TranscriberCalled(out) == out \notin {"download_failed", "oversize"}

TranscribeRaises_Swallowed(out) == FALSE
\* STTEngine.transcribe on a provider failure: the error is logged and raised
\* again
TranscribeRaises(out) == out = "transcribe_raises"

\* Step 2: processor.extract_audio_transcript(url) and the handler's use of
\* its result; every failure returns from the handler
ExtractAudio(out) ==
  /\ ppc = "audio"
  /\ audio' = out
  /\ invoked' = invoked \cup {"download"} \cup
                  (IF TranscriberCalled(out) THEN {"transcriber"} ELSE {})
  /\ IF out = "download_failed"
       THEN /\ disk' = LeaveOnReturn(disk, temp_files)
            /\ UNCHANGED <<temp_files, text_content, reply>>
            /\ ppc' = "done"
            /\ outcome' = "audio_download_failed"
     ELSE IF out = "oversize"
       \* cleanup_temp_files(audio_path), then ValueError with the limit,
       \* which the handler sends as it is
       THEN /\ disk' = LeaveOnReturn(CleanupTempFiles(disk \cup {File(run, "audio")},
                                                     {File(run, "audio")}), temp_files)
            /\ UNCHANGED <<temp_files, text_content>>
            /\ reply' = [tenths |-> 0, limit |-> MaxFileSizeMb]
            /\ ppc' = "done"
            /\ outcome' = "oversize"
     ELSE IF TranscribeRaises(out)
       \* except Exception in the handler: the generic audio error message
       THEN /\ disk' = LeaveOnReturn(disk \cup {File(run, "audio")}, temp_files)
            /\ UNCHANGED <<temp_files, text_content, reply>>
            /\ ppc' = "done"
            /\ outcome' = "transcription_error"
     ELSE LET made == {File(run, "audio"), File(run, "transcript_txt")}
              text == IF out = "transcribe_raises" THEN "empty" ELSE out
          IN
          /\ temp_files' = temp_files \cup made
          /\ text_content' = text
          /\ UNCHANGED reply
          /\ IF text = "empty"
               THEN /\ disk' = LeaveOnReturn(disk \cup made, temp_files')
                    /\ ppc' = "done"
                    /\ outcome' = "audio_download_failed"
               ELSE /\ disk' = disk \cup made
                    /\ ppc' = "validate"
                    /\ UNCHANGED outcome
  /\ fsm' = StateAfter(ppc', fsm)
  /\ UNCHANGED <<run, client, video, subs, delivered, answer, result, closes, user_requests, notPipe>>

TooShort_EmptyOnly(t) == t \in {"none", "empty"}
\* not text_content or len(text_content.strip()) < 10
TooShort(t) == t \in {"none", "empty", "short"}

\* the length check and Step 3, sending the text file (send: "raises" is an
\* exception other than TelegramBadRequest, caught by the outer except)
ValidateAndSend(send) ==
  /\ ppc = "validate"
  /\ IF TooShort(text_content)
       THEN /\ disk' = LeaveOnReturn(disk, temp_files)
            /\ ppc' = "done"
            /\ outcome' = "short_text"
            /\ UNCHANGED <<client, closes>>
     ELSE IF send = "raises"
       THEN /\ disk' = CleanupTempFiles(disk, temp_files)
            /\ client' = "closed"
            /\ closes' = closes + 1
            /\ ppc' = "done"
            /\ outcome' = "exception"
     ELSE /\ ppc' = "analyze"
          /\ UNCHANGED <<disk, client, closes, outcome>>
  /\ fsm' = StateAfter(ppc', fsm)
  /\ UNCHANGED <<run, temp_files, text_content, video, subs, audio, delivered, answer, result, reply,
                 invoked, user_requests, notPipe>>

\* Step 4: processor.analyze_content(text_content, segments) is called
StartAnalysis ==
  /\ ppc = "analyze"
  /\ ppc' = "analyzing"
  /\ AnalyzeStartCall("text")
  /\ invoked' = invoked \cup {"analyzer"}
  /\ UNCHANGED <<run, disk, temp_files, text_content, client, outcome, video, subs, audio,
                 delivered, answer, result, closes, reply, fsm, user_requests, rateOnly, memVars, libVars>>

Step5Answer_NeverEmpty(a, path) == IF path THEN "document" ELSE "chunks"
\* Step 5: the empty-answer message, the report as a document, or the
\* analysis in messages when there is no file
Step5Answer(a, path) ==
  IF Blank(a) THEN "empty_answer" ELSE IF path THEN "document" ELSE "chunks"

\* Step 4 and 5: analyze_content has returned; the file it wrote is added to
\* temp_files and the analysis is delivered (out: "raises" is an exception
\* on the way, caught by the except clause around the analysis)
AnalyzeContent(out) ==
  /\ ppc = "analyzing"
  /\ AnalyzeTaken
  /\ IF out = "ok"
       THEN /\ disk' = disk \cup (IF analysis_path THEN {File(run, "analysis")} ELSE {})
            /\ temp_files' = temp_files \cup
                               (IF analysis_path THEN {File(run, "analysis")} ELSE {})
            /\ delivered' = ~Blank(analysis)
            /\ answer' = Step5Answer(analysis, analysis_path)
            /\ result' = analysis
            /\ ppc' = "memory"
       \* except Exception: logged, the handler goes on to the cleanup
       ELSE /\ ppc' = "cleanup"
            /\ answer' = "gpt_error"
            /\ UNCHANGED <<disk, temp_files, delivered, result>>
  /\ UNCHANGED <<run, text_content, client, outcome, video, subs, audio, closes, reply,
                 invoked, fsm, user_requests, rateOnly, memVars, libVars>>

MemorySkipped_OnMessage(out, a) ==
  out = "disabled" \/ a \in {"", EmptyResultMessage, ErrorMessage, ExhaustedMessage}
\* if settings.memory_enabled and analysis and text_content (text_content is
\* non-empty past the length check)
MemorySkipped(out, a) == out = "disabled" \/ a = ""

AfterStoreRaises_Abort == "done"
\* except Exception around the memory save: a warning is logged and the
\* handler goes on to the cleanup
AfterStoreRaises == "cleanup"

\* Step 6: the memory save up to the await inside add_memory (out: memory
\* disabled in the settings, get_memory_store() raises, or add_memory is
\* called with the run's text c)
SaveToMemory(out, c, lookupFails) ==
  /\ ppc = "memory"
  /\ IF MemorySkipped(out, result)
       THEN /\ ppc' = "cleanup"
            /\ invoked' = invoked \cup (IF out = "disabled" THEN {"memory_disabled"} ELSE {})
            /\ UNCHANGED memVars
     ELSE IF out = "store_raises"
       THEN /\ ppc' = AfterStoreRaises
            /\ invoked' = invoked \cup {"get_memory_store"}
            /\ UNCHANGED memVars
     ELSE /\ AddStartCall(1, PipeUser, c, <<result>>, lookupFails)
          /\ invoked' = invoked \cup {"get_memory_store", "add_memory"}
          /\ ppc' = IF apc'[1] = "embedding" THEN "saving" ELSE "cleanup"
  /\ UNCHANGED <<run, disk, temp_files, text_content, client, outcome, video, subs, audio,
                 delivered, answer, result, closes, reply, fsm, user_requests, rateRest>>

\* Step 6 from the return of _get_embedding to the return of add_memory
SaveResume(embOK, f) ==
  /\ ppc = "saving"
  /\ AddResumeCall(1, embOK, f)
  /\ ppc' = "cleanup"
  /\ UNCHANGED <<run, disk, temp_files, text_content, client, outcome, video, subs, audio,
                 delivered, answer, result, closes, reply, invoked, fsm, user_requests, rateRest>>

\* the cleanup at the end of the try block
Cleanup ==
  /\ ppc = "cleanup"
  /\ disk' = CleanupTempFiles(disk, temp_files)
  /\ client' = "closed"
  /\ closes' = closes + 1
  /\ ppc' = "done"
  /\ outcome' = "success"
  /\ fsm' = StateAfter(ppc', fsm)
  /\ UNCHANGED <<run, temp_files, text_content, video, subs, audio, delivered, answer, result, reply,
                 invoked, user_requests, notPipe>>

\* the handler has returned; the next message arrives
PipeReturn ==
  /\ ppc = "done"
  /\ ppc' = "idle"
  /\ temp_files' = {}
  /\ text_content' = "none"
  /\ client' = "none"
  /\ video' = 0
  /\ subs' = "none"
  /\ audio' = "none"
  /\ delivered' = FALSE
  /\ answer' = "none"
  /\ result' = "none"
  /\ closes' = 0
  /\ reply' = NoReply
  /\ invoked' = {}
  /\ UNCHANGED <<run, disk, outcome, fsm, user_requests, notPipe>>

PipeInit == RateIdle /\ MemIdle /\ PipeIdle /\ AnalyzeIdle /\ LibIdle

\* the steps of a run that has started
PipeStep ==
  \/ \E out \in SubtitleOutcomes : ExtractSubtitles(out)
  \/ \E out \in AudioOutcomes : ExtractAudio(out)
  \/ \E send \in SendOutcomes : ValidateAndSend(send)
  \/ StartAnalysis
  \/ \E out \in RequestOutcomes : PrimaryResponds(out)
  \/ \E out \in RequestOutcomes : SecondaryResponds(out)
  \/ BackoffDone
  \/ \E out \in AnalysisOutcomes : AnalyzeContent(out)
  \/ \E out \in MemoryOutcomes, c \in Contents, lf \in BOOLEAN : SaveToMemory(out, c, lf)
  \/ \E e \in BOOLEAN, f \in AddFaults : SaveResume(e, f)
  \/ Cleanup
  \/ PipeReturn

PipeNext ==
  \/ \E d \in Durations, probe \in ProbeOutcomes, initOK \in BOOLEAN : PipeStart(d, probe, initOK)
  \/ PipeStep

SpecPipe == PipeInit /\ [][PipeNext]_vars

\* the event loop resumes a run whose awaited call has returned
SpecPipeLive == SpecPipe /\ WF_vars(PipeStep)

\* what an analyzer behind self.openai_client can hand back: nothing, only
\* whitespace, a text, a message
AnalyzerOutputs == {"", " ", "content", EmptyResultMessage}

\* analysis = await self.openai_client.analyze_text(...) for any client that
\* returns a string, and the rest of analyze_content
AnalyzerReturns(a) ==
  /\ ppc = "analyzing"
  /\ anpc = "primary"
  /\ Returns(a)
  /\ UNCHANGED <<anText, requests, ncalls, notAnalyze>>

\* the steps of a run whose analyzer is any such client
PipeAnyStep ==
  \/ \E out \in SubtitleOutcomes : ExtractSubtitles(out)
  \/ \E out \in AudioOutcomes : ExtractAudio(out)
  \/ \E send \in SendOutcomes : ValidateAndSend(send)
  \/ StartAnalysis
  \/ \E a \in AnalyzerOutputs : AnalyzerReturns(a)
  \/ \E out \in AnalysisOutcomes : AnalyzeContent(out)
  \/ \E out \in MemoryOutcomes, c \in Contents, lf \in BOOLEAN : SaveToMemory(out, c, lf)
  \/ \E e \in BOOLEAN, f \in AddFaults : SaveResume(e, f)
  \/ Cleanup
  \/ PipeReturn

PipeAnyNext ==
  \/ \E d \in Durations, probe \in ProbeOutcomes, initOK \in BOOLEAN : PipeStart(d, probe, initOK)
  \/ PipeAnyStep

SpecPipeAny == PipeInit /\ [][PipeAnyNext]_vars

(* ------------------------ Subtitles: properties ------------------------ *)
\* the place of a track in the order of preference: its language matches
\* 'original', else 'en', else it is an automatic caption, else any track
Rank(t) ==
  IF Contains(<<"original">>, Lower(t.lang)) THEN 0
  ELSE IF Contains(<<"e", "n">>, Lower(t.lang)) THEN 1
  ELSE IF t.auto THEN 2
  ELSE 3

\* C32: the track chosen is the first of the probed list among the tracks of
\* the best rank present; the forced automatic download is tried exactly
\* when the probe found no track
C32_PreferenceOrder ==
  dpc = "returned" =>
    /\ chosen.kind = "forced" <=> (available_subs = <<>>)
    /\ chosen.kind # "forced" =>
       \E i \in DOMAIN available_subs :
         /\ chosen = [kind |-> "track", lang |-> available_subs[i].lang,
                      auto |-> available_subs[i].auto]
         /\ \A j \in DOMAIN available_subs : Rank(available_subs[j]) >= Rank(chosen)
         /\ \A j \in 1..(i - 1) : Rank(available_subs[j]) > Rank(chosen)

\* an English automatic caption was chosen over a French manual track
\* listed before it
C32_Witness ==
  /\ chosen.kind = "track"
  /\ chosen.auto
  /\ Rank(chosen) = 1
  /\ Len(available_subs) >= 2
  /\ Rank(available_subs[1]) = 3

(* ------------------------ Transcript: properties ----------------------- *)
\* C33: the transcript holds exactly the well-formed segments of the
\* response, in their order; a segment with a missing or non-numeric start
\* or end is not in it
C33_MalformedDropped ==
  tpc = "returned" =>
    LET kept == SelectSeq(resp_segments, WellFormed) IN
      segments = [i \in DOMAIN kept |->
                    [start |-> kept[i].start.v, end |-> kept[i].end.v, text |-> kept[i].text]]

(* ------------------------ Temp artifacts: properties ------------------- *)
\* C36: two runs in flight never hold the same path in their temp_files,
\* and every file a run holds is still in the workdir
C36_NoSharedPaths ==
  /\ \A r1, r2 \in Jobs : r1 # r2 => jfiles[r1] \cap jfiles[r2] = {}
  /\ \A r \in Jobs : jfiles[r] \subseteq workdir

(* ------------------------ Analyzer: properties ------------------------- *)
\* C21: a call of analyze_text makes at most 3 attempts (primary requests),
\* always returns a string, and when every request of the call raised it
\* returns the fixed error message right after the third failure.
C21_ThreeAttempts ==
  /\ attempt < MaxAttempts
  /\ CountKind(requests, "primary") <= MaxAttempts
  /\ CountKind(requests, "primary") <= attempt + 1
  /\ Len(requests) <= 2 * MaxAttempts
  /\ anpc = "returned" => analysis # NoAnalysis
  /\ (anpc = "returned" /\ \A i \in DOMAIN requests : requests[i].out = "raises") =>
        /\ Len(requests) = MaxAttempts
        /\ analysis = ErrorMessage
        /\ slept = 3
\* the provider failed three times and the call returned the error message
C21_Witness ==
  /\ anpc = "returned"
  /\ Len(requests) = MaxAttempts
  /\ \A i \in DOMAIN requests : requests[i].out = "raises"
  /\ analysis = ErrorMessage

\* C22: one call of analyze_text issues at most one request with the
\* simplified prompt.
C22_OneSecondaryRequest ==
  CountKind(requests, "secondary") <= 1

\* C23: analyze_content called with text "" returns an empty analysis and no
\* path, and writes no file.
C23_EmptyTextNoFile ==
  (anpc = "returned" /\ anText = "") => (analysis = "" /\ ~analysis_path)

\* C34: the wait after failed attempt i (numbered from 0) is 2^i seconds, so
\* 1 s and then 2 s; a wait follows only a request that raised in attempt 0
\* or 1, never the last failed attempt nor a response that came back
C34_BackoffWaits ==
  /\ [](slept = 2 ^ attempt - 1)
  /\ [](anpc = "backoff" =>
          /\ attempt < MaxAttempts - 1
          /\ requests # <<>>
          /\ requests[Len(requests)].out = "raises")
  /\ [][(slept' > slept) =>
          /\ anpc = "backoff"
          /\ slept' - slept = (IF attempt = 0 THEN 1 ELSE 2)]_vars
  /\ [][(anpc' = "returned" /\ anpc # "returned") => slept' = slept]_vars

\* three failed attempts with waits of 1 s and 2 s, and none after the third
C34_Witness ==
  /\ anpc = "returned"
  /\ attempt = MaxAttempts - 1
  /\ slept = 3
  /\ requests[Len(requests)].out = "raises"

\* C31: when the analyzer hands back an empty or whitespace-only string,
\* analyze_content returns no path and writes no file, and Step 5 sends the
\* empty-answer message, not the error message of the except clause
C31_EmptyAnalysisReported ==
  /\ []((anpc = "returned" /\ Blank(analysis)) => ~analysis_path)
  /\ [][(ppc = "analyzing" /\ anpc = "returned" /\ Blank(analysis) /\ ppc' = "memory") =>
          /\ answer' = "empty_answer"
          /\ ~delivered'
          /\ File(run, "analysis") \notin disk'
          /\ File(run, "analysis") \notin temp_files']_vars
  /\ [](answer = "empty_answer" => (Blank(result) /\ File(run, "analysis") \notin disk))

\* a whitespace-only analysis was answered with the empty-answer message
C31_Witness ==
  answer = "empty_answer" /\ result = " " /\ ppc = "memory"

\* C37: what analyze_text returns is never empty or blank: it is the model's
\* stripped output or one of the fixed messages; so in a run analyze_content
\* always writes the analysis file and Step 5 never sends the empty-answer
\* message
C37_AnalysisNeverEmpty ==
  /\ [](anpc = "returned" =>
          /\ analysis \in {"content", EmptyResultMessage, ErrorMessage, ExhaustedMessage}
          /\ ~Blank(analysis)
          /\ analysis_path)
  /\ [](answer # "empty_answer" /\ ~Blank(result))
  /\ [][(ppc = "analyzing" /\ ppc' = "memory") =>
          /\ File(run, "analysis") \in disk'
          /\ File(run, "analysis") \in temp_files'
          /\ answer' = "document"]_vars

\* both prompts came back without text and the message was sent as the report
C37_Witness ==
  ppc = "memory" /\ result = EmptyResultMessage /\ answer = "document"

\* the fixed messages analyze_text returns when it gives up
GiveUpMessages == {EmptyResultMessage, ErrorMessage, ExhaustedMessage}

\* C38: a give-up message of the analyzer is handled as an analysis: it is
\* written to the analysis file and sent, with memory enabled add_memory is
\* called with it as the analysis, the run ends as a success, and once the
\* entry is stored the same content is rejected as a duplicate
C38_GiveUpMessageIsAnalysis ==
  /\ [][(ppc = "analyzing" /\ ppc' = "memory" /\ analysis \in GiveUpMessages) =>
          /\ File(run, "analysis") \in disk'
          /\ answer' = "document"
          /\ delivered'
          /\ result' = analysis]_vars
  /\ [][(ppc = "memory" /\ ppc' # "memory" /\ result \in GiveUpMessages) =>
          /\ "memory_disabled" \notin invoked' => "get_memory_store" \in invoked'
          /\ ppc' = "saving" => acall'[1].analysis = <<result>>
          /\ ("add_memory" \in invoked' /\ ppc' = "cleanup") =>
                (lastAdd'.analysis = <<result>> /\ ~lastAdd'.ret)]_vars
  /\ [][(ppc = "saving" /\ ppc' = "cleanup" /\ lastAdd'.ret) =>
          \E r \in table' : /\ r.user = PipeUser
                             /\ r.analysis = <<result>>
                             /\ r.hash = ContentHash(lastAdd'.content)]_vars
  /\ [][(ppc = "memory" /\ ppc' = "saving") =>
          ~\E r \in table : /\ r.user = PipeUser
                             /\ r.analysis[1] \in GiveUpMessages
                             /\ r.hash = ContentHash(acall'[1].content)]_vars
  /\ [][(ppc = "memory" /\ "add_memory" \in invoked' /\ ppc' = "cleanup") =>
          (~lastAdd'.ret /\ table' = table)]_vars
  /\ []((ppc = "done" /\ result \in GiveUpMessages) => outcome = "success")

\* the transcript saved with the error message was submitted again and
\* rejected as a duplicate
C38_Witness ==
  /\ run = 2
  /\ ppc = "cleanup"
  /\ "add_memory" \in invoked
  /\ ~lastAdd.ret
  /\ lastAdd.fault = "none"
  /\ \E r \in table : /\ r.user = PipeUser
                       /\ r.analysis = <<ErrorMessage>>
                       /\ r.content = lastAdd.content

\* C35: the probe, the downloads, the transcription, the model calls and the
\* memory operations of a request happen only after is_allowed admitted it;
\* a rejected request ends at once, leaves every other part of the state as
\* it was, and is not taken up again
C35_AdmissionFirst ==
  /\ [][(run' # run /\ ~IsAllowed(user_requests[PipeUser], now).allowed) =>
          /\ ppc' = "done"
          /\ outcome' = "rate_limited"
          /\ invoked' = {}
          /\ reply' = NoReply
          /\ <<disk, fsm, memVars, analyzeVars>>' = <<disk, fsm, memVars, analyzeVars>>]_vars
  /\ []((ppc # "idle" /\ invoked # {}) => outcome # "rate_limited")
  /\ [](outcome = "rate_limited" /\ ppc = "done" =>
          /\ invoked = {}
          /\ anpc = "idle"
          /\ apc[1] = "idle"
          /\ answer = "none")
  /\ [][(ppc = "done" /\ outcome = "rate_limited") =>
          /\ ppc' = "idle"
          /\ <<run, disk, user_requests, memVars, analyzeVars>>' =
               <<run, disk, user_requests, memVars, analyzeVars>>]_vars

\* the third request of the minute was rejected
C35_Witness ==
  /\ ppc = "done"
  /\ outcome = "rate_limited"
  /\ Len(user_requests[PipeUser]) = MaxPerMinute

(* ------------------------ Pipeline: failures and fall-through ---------- *)
\* C24: when the speech provider fails, transcribe raises instead of handing
\* back an empty transcript, the run ends failed with the generic audio error
\* and neither the analyzer nor add_memory has been called in it
C24_TranscriptionFailureIsFatal ==
  audio = "transcribe_raises" =>
    /\ ppc = "done"
    /\ outcome = "transcription_error"
    /\ File(run, "transcript_txt") \notin disk
    /\ reply = NoReply
    /\ ~delivered
    /\ "transcriber" \in invoked
    /\ invoked \cap {"analyzer", "add_memory"} = {}

C24_Witness ==
  audio = "transcribe_raises" /\ ppc = "done" /\ subs = "convert_raises"

\* C25: an oversize download is deleted and answered with the size limit
\* without the transcriber being called; any other download error ends the
\* run through the no-result branch, not through an exception
C25_OversizeRejected ==
  /\ audio = "oversize" =>
       /\ ppc = "done"
       /\ outcome = "oversize"
       /\ reply = [tenths |-> 0, limit |-> MaxFileSizeMb]
       /\ File(run, "audio") \notin disk
       /\ "transcriber" \notin invoked
  /\ audio = "download_failed" =>
       /\ ppc = "done"
       /\ outcome = "audio_download_failed"
       /\ reply = NoReply
       /\ "transcriber" \notin invoked

C25_Witness ==
  audio = "oversize" /\ ppc = "done" /\ run = 2

\* C29: a subtitle stage without text, or one that raised, is followed by
\* the audio stage, whose next step is the download; the analysis starts only
\* with the text of the subtitles or of the transcript at hand
C29_FallThrough ==
  /\ [][(ppc = "subs" /\ subs' \in {"no_subtitles", "convert_raises", "empty"})
          => (ppc' = "audio" /\ outcome' = "running")]_vars
  /\ [][(ppc = "audio") => ("download" \in invoked')]_vars
  /\ [](ppc \in {"analyze", "analyzing"} =>
          /\ text_content = "ok"
          /\ \/ subs = "ok" /\ audio = "none"
             \/ subs \in {"no_subtitles", "convert_raises", "empty"} /\ audio = "ok")

C29_Witness ==
  ppc = "analyzing" /\ subs = "convert_raises" /\ audio = "ok"

\* C30: a run that has set the processing state ends, and whenever the
\* handler has been left the processing state is cleared
C30_RunsEndAndClear ==
  /\ (fsm = "processing") ~> (ppc = "done" /\ fsm = "none")
  /\ [](ppc \in {"done", "idle"} => fsm = "none")
  /\ [](ppc \notin {"done", "idle"} => fsm = "processing")

C30_Witness ==
  ppc = "done" /\ fsm = "none" /\ outcome = "success" /\ "analyzer" \in invoked

(* ------------------------ Pipeline: properties ------------------------- *)
\* C1: when a run of handle_tiktok_url has ended, none of the temporary
\* files it created is left in the workdir, whatever the exit path.
C1_TempFilesDeleted ==
  ppc = "done" => {f \in disk : f.run = run} = {}

\* C16: an add_memory call whose duplicate lookup or insert fails returns
\* False and stores nothing; in a run, whatever the memory save does, the
\* analysis has been delivered before it, the save is followed by the
\* cleanup only, and the run goes on to delete its temp files and close its
\* client.
C16_MemoryNeverBlocks ==
  /\ [][(lastAdd'.n # lastAdd.n /\ lastAdd'.fault \in {"lookup", "insert"}) =>
          (~lastAdd'.ret /\ table' = table)]_vars
  /\ [][(ppc \in {"memory", "saving"}) =>
          (/\ ppc' \in {"memory", "saving", "cleanup"}
           /\ delivered
           /\ delivered'
           /\ disk' = disk
           /\ temp_files' = temp_files
           /\ closes' = closes)]_vars
  /\ (ppc \in {"memory", "saving"}) ~>
        (ppc = "done" /\ outcome = "success" /\ closes = 1 /\ temp_files \cap disk = {})
\* a run whose insert into the memory table failed ended with the cleanup done
C16_Witness ==
  /\ run = 1
  /\ ppc = "done"
  /\ outcome = "success"
  /\ delivered
  /\ lastAdd.n = 1
  /\ lastAdd.fault = "insert"
  /\ ~lastAdd.ret
  /\ closes = 1

\* C17: when a run in which the OpenAI client was opened has ended, the
\* client's close has been executed exactly once.
C17_ClientClosedOnce ==
  (ppc = "done" /\ client # "none") => closes = 1

\* C18: in a run whose subtitle step yields non-empty text,
\* extract_audio_transcript is never invoked and the text is the subtitles'.
C18_SubtitlesSkipAudio ==
  subs \in {"short", "ok"} =>
     /\ audio = "none"
     /\ ppc # "audio"
     /\ text_content = subs
\* a run completed from subtitles alone
C18_Witness ==
  /\ subs = "ok"
  /\ audio = "none"
  /\ ppc = "done"
  /\ outcome = "success"

\* C19: the analyzer and add_memory are reached only with a text of at least
\* 10 characters; a run whose extraction yields no text or a shorter one ends
\* with a failure message and without an analysis.
C19_NoAnalysisOfShortText ==
  /\ ppc \in {"analyze", "memory", "saving", "cleanup"} => text_content = "ok"
  /\ delivered => text_content = "ok"
  /\ (ppc = "done" /\ (subs # "none" \/ audio # "none") /\ text_content # "ok") =>
        /\ outcome \in {"audio_download_failed", "oversize", "transcription_error",
                        "short_text"}
        /\ ~delivered
\* a run with a text under 10 characters ended with the short-text message
C19_Witness ==
  /\ ppc = "done"
  /\ text_content = "short"
  /\ outcome = "short_text"

\* C20: for a video longer than max_audio_duration_minutes no subtitle or
\* audio download is attempted, also when the metadata probe returns nothing.
C20_NoDownloadWhenTooLong ==
  video > 60 * MaxAudioDurationMinutes => (subs = "none" /\ audio = "none" /\ ppc # "subs")

(* ---------------------- MemoryStore: properties ------------------------ *)
\* C2: no two stored entries of one user have the same content_hash, in
\* every reachable state, concurrent add_memory calls included.
C2_UniqueContentHash ==
  \A r1, r2 \in table : (r1.user = r2.user /\ r1.hash = r2.hash) => r1 = r2

\* C3: of two add_memory calls made one after the other for the same user
\* with the same content, the first returns True exactly when the content's
\* hash is not yet stored and its lookup and insert succeed; the second then
\* returns False, whatever its analysis, and leaves the store as it was, with
\* exactly one entry for the content, carrying the first call's analysis.
C3_SecondAddRejected ==
  [][lastAdd'.n # lastAdd.n =>
       LET u == lastAdd'.user
           c == lastAdd'.content
       IN /\ lastAdd'.ret <=>
               (~HasHash(table, u, ContentHash(c)) /\ lastAdd'.fault \notin {"lookup", "insert"})
          /\ (lastAdd.ret /\ lastAdd.user = u /\ lastAdd.content = c) =>
               /\ ~lastAdd'.ret
               /\ table' = table
               /\ Cardinality({r \in table' : r.user = u /\ r.content = c}) = 1
               /\ \A r \in table' : (r.user = u /\ r.content = c) => r.analysis = lastAdd.analysis]_vars
\* the second call brought another analysis for the stored content and was rejected
C3_Witness ==
  /\ lastAdd.n >= 2
  /\ ~lastAdd.ret
  /\ lastAdd.fault = "none"
  /\ \E r \in table : /\ r.user = lastAdd.user
                      /\ r.content = lastAdd.content
                      /\ r.analysis # lastAdd.analysis

\* C15: an add_memory call of content not yet stored whose insert succeeds
\* returns True and stores the entry, with a null embedding when the
\* embedding call failed; an entry stored without embedding is found by the
\* duplicate lookup (a later call with its content does not go on to insert)
\* and by the keyword search for its content.
C15_StoredWithoutEmbedding ==
  /\ [](\A r \in table : r.emb = NoEmbedding =>
          /\ HasHash(table, r.user, ContentHash(r.content))
          /\ r \in KeywordMatches(table, r.user, r.content))
  /\ [][(lastAdd'.n # lastAdd.n /\ apc[1] = "embedding" /\ lastAdd'.fault # "insert") =>
          /\ lastAdd'.ret
          /\ \E r \in table' \ table : /\ r.id = nextId
                                      /\ r.user = acall[1].user
                                      /\ r.content = acall[1].content]_vars
  /\ [][nadds' # nadds =>
          \A r \in table : r.emb = NoEmbedding =>
             ~(/\ apc'[1] = "embedding"
               /\ acall'[1].user = r.user
               /\ acall'[1].content = r.content)]_vars
\* add_memory returned True for an entry it stored without embedding, and a
\* second call with that content was rejected as a duplicate
C15_Witness ==
  /\ lastAdd.n >= 2
  /\ ~lastAdd.ret
  /\ lastAdd.fault = "none"
  /\ \E r \in table : /\ r.emb = NoEmbedding
                      /\ r.user = lastAdd.user
                      /\ r.content = lastAdd.content

\* C8: when an add_memory call stores its entry, takes the user's count above
\* memory_max_entries and its eviction queries return, the user keeps exactly
\* memory_max_entries entries, the new one among them, and every deleted
\* entry is older (created_at) than every kept one.
C8_EvictsOldest ==
  [][(lastAdd'.n # lastAdd.n /\ lastAdd'.ret /\ lastAdd'.fault = "none") =>
       LET u == lastAdd'.user
           old == UserRows(table, u)
           kept == UserRows(table', u)
       IN Cardinality(old) + 1 > MemoryMaxEntries =>
            /\ \E r \in kept : r.id = nextId /\ r.content = lastAdd'.content /\ r \notin old
            /\ \A r \in kept : r.id = nextId \/ r \in old
            /\ Cardinality(kept) = MemoryMaxEntries
            /\ lastAdd'.evicted = Cardinality(old) + 1 - MemoryMaxEntries
            /\ \A d \in old \ kept : \A k \in kept : d.created_at < k.created_at]_vars
\* an add_memory call evicted an entry and returned True
C8_Witness ==
  /\ lastAdd.ret
  /\ lastAdd.fault = "none"
  /\ lastAdd.evicted >= 1
  /\ Cardinality(UserRows(table, lastAdd.user)) = MemoryMaxEntries

\* C9: whenever no add_memory call is in progress, every user holds at most
\* memory_max_entries entries, also after a call whose eviction step met a
\* failing backend operation.
C9_BoundedWhenIdle ==
  (\A p \in Procs : apc[p] = "idle") =>
     \A u \in Users : Cardinality(UserRows(table, u)) <= MemoryMaxEntries

\* the ids of a result list
ResultIds(rows) == {rows[i].id : i \in DOMAIN rows}

\* C11: when the query embedding was obtained, every entry search_memory
\* returns has similarity >= 0.5, whatever happens later in the call.
C11_AboveThreshold ==
  (sres # NoSearch /\ sres.path \in {"vector", "keyword_on_error"}) =>
     \A i \in DOMAIN sres.rows : sres.rows[i].similarity >= MatchThreshold

\* C12: when the query embedding fails, search_memory returns what the
\* keyword search returns: rows of the user that match the query, each with
\* similarity 0.0, as many as the limit allows, and [] when the keyword
\* query itself fails.
C12_KeywordFallback ==
  (sres # NoSearch /\ sres.path = "keyword") =>
     /\ \A i \in DOMAIN sres.rows : sres.rows[i].similarity = 0
     /\ ResultIds(sres.rows) \subseteq
          {r.id : r \in KeywordMatches(table, sres.user, sres.query)}
     /\ sres.kwFailed => sres.rows = <<>>
     /\ ~sres.kwFailed =>
          Len(sres.rows) = Min(sres.top_k,
                               Cardinality(KeywordMatches(table, sres.user, sres.query)))
\* the fallback returned a matching entry
C12_Witness ==
  /\ sres # NoSearch
  /\ sres.path = "keyword"
  /\ ~sres.kwFailed
  /\ sres.rows # <<>>
\* the fallback's own query failed while an entry matched
C12_KeywordFailed ==
  /\ sres # NoSearch
  /\ sres.path = "keyword"
  /\ sres.kwFailed
  /\ KeywordMatches(table, sres.user, sres.query) # {}

\* C13: when the query embedding was obtained and the similarity search
\* returned nothing, search_memory does not return [] while an entry of the
\* user matches the keyword search.
C13_FallbackOnNoHits ==
  (sres # NoSearch /\ sres.path = "vector" /\ sres.rows = <<>>) =>
     KeywordMatches(table, sres.user, sres.query) = {}

\* the entries of user u whose content shares a word with the query
SharesToken(t, u, q) ==
  {r \in UserRows(t, u) : \E i \in DOMAIN q, j \in DOMAIN r.content : q[i] = r.content[j]}

\* C14: with the embedding provider failing, every entry of the user whose
\* content shares a word with the query is returned with similarity 0.0,
\* unless top_k entries were returned already.
C14_TokenMatchReturned ==
  (sres # NoSearch /\ sres.path = "keyword" /\ ~sres.kwFailed) =>
     \/ Len(sres.rows) = sres.top_k
     \/ \A r \in SharesToken(table, sres.user, sres.query) :
          \E i \in DOMAIN sres.rows : sres.rows[i].id = r.id /\ sres.rows[i].similarity = 0

\* C10: search_memory returns at most top_k entries on every path.
C10_AtMostTopK == sres # NoSearch => Len(sres.rows) <= sres.top_k
\* a keyword fallback that had more matching rows than top_k
C10_Witness ==
  /\ sres # NoSearch
  /\ sres.path = "keyword"
  /\ Len(sres.rows) = sres.top_k
  /\ Cardinality(KeywordMatches(table, sres.user, sres.query)) > sres.top_k
\* a vector search that had more qualifying rows than top_k
C10_VectorLimited ==
  /\ sres # NoSearch
  /\ sres.path = "vector"
  /\ Len(sres.rows) = sres.top_k
  /\ Cardinality({r \in UserRows(table, sres.user) : r.emb # NoEmbedding
                    /\ Similarity(Embed(sres.query), r.emb) >= MatchThreshold}) > sres.top_k
\* a keyword fallback after the RPC raised
C10_FallbackOnError ==
  /\ sres # NoSearch
  /\ sres.path = "keyword_on_error"
  /\ Len(sres.rows) = sres.top_k

(* ---------------------- RateLimiter: properties ----------------------- *)
\* the timestamps of q newer than w seconds before t
Newer(q, t, w) == Cardinality({i \in DOMAIN q : q[i] > t - w})
\* the admissions of user u inside the trailing window (T - w, T]
AdmittedIn(u, T, w) ==
  Cardinality({i \in DOMAIN admitted[u] : admitted[u][i] > T - w /\ admitted[u][i] <= T})
\* the instants at which a trailing window can hold most admissions
WindowEnds(u) == {admitted[u][i] : i \in DOMAIN admitted[u]} \cup {now}

\* C4: is_allowed rejects with the per-minute reason exactly when the user's
\* recorded timestamps newer than 60 s before the check number at least
\* max_per_minute; and no trailing 60-second window ever holds more than
\* max_per_minute admitted requests of one user.
C4_MinuteLimitExact ==
  /\ lastCheck.user # 0 =>
       ((~lastCheck.allowed /\ lastCheck.reason = "minute")
          <=> Newer(lastCheck.before, lastCheck.time, MinuteWindow) >= MaxPerMinute)
  /\ \A u \in RateUsers : \A T \in WindowEnds(u) :
       AdmittedIn(u, T, MinuteWindow) <= MaxPerMinute
\* a check was rejected for the minute limit with the window full
C4_Witness ==
  /\ lastCheck.user # 0
  /\ ~lastCheck.allowed
  /\ lastCheck.reason = "minute"
  /\ AdmittedIn(lastCheck.user, now, MinuteWindow) = MaxPerMinute

\* C5: check and append of is_allowed are one atomic step: every step that
\* records an admission starts in a state whose window passes both limits, so
\* handlers running concurrently never jointly get more than max_per_minute
\* admissions into a 60-second window nor more than max_per_hour into a
\* 3600-second window.
C5_AtomicAdmission ==
  /\ [](\A u \in RateUsers : \A T \in WindowEnds(u) :
         /\ AdmittedIn(u, T, MinuteWindow) <= MaxPerMinute
         /\ AdmittedIn(u, T, HourWindow) <= MaxPerHour)
  /\ [][\A u \in RateUsers : admitted'[u] # admitted[u] =>
         /\ ~MinuteLimitHit(PopOld(user_requests[u], now), now)
         /\ ~HourLimitHit(PopOld(user_requests[u], now), now)]_vars
\* two handlers of one user are in flight at once and have used up the minute quota
C5_Witness ==
  \E p, q \in Handlers :
    /\ p # q
    /\ hpc[p] = "running" /\ hpc[q] = "running"
    /\ huser[p] = huser[q]
    /\ MinuteLimitHit(user_requests[huser[p]], now)

\* C6: a rejected is_allowed call records nothing: the user's window after it
\* is the window before it without the entries older than 3600 s, and the
\* admission history is unchanged.
C6_RejectedNotRecorded ==
  [][(nchecks' # nchecks /\ ~lastCheck'.allowed) =>
       /\ user_requests' = [user_requests EXCEPT ![lastCheck'.user] =
             SelectSeq(@, LAMBDA t : now - t <= HourWindow)]
       /\ admitted' = admitted]_vars
\* a rejected call that pruned an expired entry
C6_Witness ==
  /\ lastCheck.user # 0
  /\ ~lastCheck.allowed
  /\ \E i \in DOMAIN lastCheck.before : lastCheck.time - lastCheck.before[i] > HourWindow

\* C7: with the minute count below max_per_minute and the hour count at least
\* max_per_hour the call is rejected with the per-hour reason; with both
\* limits met the per-minute reason wins; and no trailing 3600-second window
\* ever holds more than max_per_hour admitted requests of one user.
C7_HourLimit ==
  /\ lastCheck.user # 0 =>
       LET m == Newer(lastCheck.before, lastCheck.time, MinuteWindow)
           h == Newer(lastCheck.before, lastCheck.time, HourWindow)
       IN /\ (m < MaxPerMinute /\ h >= MaxPerHour) =>
                (~lastCheck.allowed /\ lastCheck.reason = "hour")
          /\ (m >= MaxPerMinute /\ h >= MaxPerHour) =>
                (~lastCheck.allowed /\ lastCheck.reason = "minute")
  /\ \A u \in RateUsers : \A T \in WindowEnds(u) :
       AdmittedIn(u, T, HourWindow) <= MaxPerHour
\* a check was rejected for the hour limit
C7_Witness ==
  /\ lastCheck.user # 0
  /\ ~lastCheck.allowed
  /\ lastCheck.reason = "hour"
\* both limits were met at once (the per-minute reason is given)
C7_BothLimitsReached ==
  /\ lastCheck.user # 0
  /\ Newer(lastCheck.before, lastCheck.time, MinuteWindow) >= MaxPerMinute
  /\ Newer(lastCheck.before, lastCheck.time, HourWindow) >= MaxPerHour

\* the oldest timestamp of q that a check at time t counts in its minute window
OldestCounted(q, t) ==
  CHOOSE x \in {q[i] : i \in DOMAIN q} :
    /\ x > t - MinuteWindow
    /\ \A i \in DOMAIN q : q[i] > t - MinuteWindow => x <= q[i]
\* this step is a check of the user whose last check was rejected for the
\* minute limit, more than 60 s after the oldest timestamp that check counted
AfterMinuteRejection ==
  /\ nchecks' # nchecks
  /\ lastCheck.user # 0
  /\ lastCheck'.user = lastCheck.user
  /\ ~lastCheck.allowed
  /\ lastCheck.reason = "minute"
  /\ now - OldestCounted(lastCheck.before, lastCheck.time) > MinuteWindow

\* C26 as stated: with fewer than max_per_minute admissions in the 60 s
\* before it (at least one), the next request is rejected for the minute limit
C26_RejectedBelowLimit ==
  [][(nchecks' # nchecks
        /\ AdmittedIn(lastCheck'.user, now, MinuteWindow) >= 1
        /\ AdmittedIn(lastCheck'.user, now, MinuteWindow) < MaxPerMinute)
       => (~lastCheck'.allowed /\ lastCheck'.reason = "minute")]_vars

\* C26, amended: after max_per_minute admissions of a user in the 60 s before
\* it the next request is rejected for the minute limit, and with fewer it is
\* never rejected for the minute limit
C26_RejectedAtLimit ==
  [][(nchecks' # nchecks) =>
       LET n == AdmittedIn(lastCheck'.user, now, MinuteWindow) IN
         /\ n <= MaxPerMinute
         /\ (n = MaxPerMinute) => (~lastCheck'.allowed /\ lastCheck'.reason = "minute")
         /\ (n < MaxPerMinute) => (lastCheck'.allowed \/ lastCheck'.reason = "hour")]_vars

\* the request after max_per_minute admissions spread over half a minute was rejected
C26_Witness ==
  /\ lastCheck.user # 0
  /\ ~lastCheck.allowed
  /\ lastCheck.reason = "minute"
  /\ Len(admitted[lastCheck.user]) = MaxPerMinute
  /\ admitted[lastCheck.user][1] < admitted[lastCheck.user][MaxPerMinute]
  /\ lastCheck.time >= admitted[lastCheck.user][MaxPerMinute]

\* C27 as stated: the first request after a minute rejection that comes more
\* than 60 s after the oldest counted timestamp is allowed, whatever the
\* hourly count
C27_AllowedAfterWindow ==
  [][AfterMinuteRejection => lastCheck'.allowed]_vars

\* C27, amended: that request is never rejected for the minute limit, and it
\* is allowed exactly when fewer than max_per_hour timestamps of the user are
\* newer than 3600 s
C27_MinuteLimitLifted ==
  [][AfterMinuteRejection =>
       /\ lastCheck'.reason # "minute"
       /\ lastCheck'.allowed <=>
            Newer(user_requests[lastCheck.user], now, HourWindow) < MaxPerHour]_vars

\* a request was allowed after a minute rejection, a minute later
C27_Witness ==
  /\ lastCheck.user # 0
  /\ lastCheck.allowed
  /\ Len(admitted[lastCheck.user]) = MaxPerMinute + 1
  /\ Len(lastCheck.before) = MaxPerMinute
  /\ nchecks = MaxPerMinute + 2
  /\ lastCheck.time - lastCheck.before[1] > MinuteWindow

\* C28: after a check the user's deque holds no timestamp more than 3600 s
\* older than the time of the check, whatever the sequence of check times
C28_NoStaleTimestamps ==
  lastCheck.user # 0 =>
    \A i \in DOMAIN user_requests[lastCheck.user] :
      lastCheck.time - user_requests[lastCheck.user][i] <= HourWindow

\* the rows of user v, read off the table
OwnRows(t, v) == {r \in t : r.user = v}
\* the ids search_memory may return to user u for any query on table t
SearchedIds(t, u) ==
  UNION {UNION {ResultIds(SearchResult(t, u, x[1], x[2], x[3], S).rows) :
                  S \in KeywordReturns(t, u, x[1], x[2], x[3])} :
           x \in Queries \X (1..MaxTopK) \X SearchEnvs}

\* C39: a step changes the rows of user v only when it is the return of an
\* add_memory call of v or a clear_memory, and a clear_memory changes the
\* rows of one user only; an add_memory of u is rejected as a duplicate only
\* on a row of u, whatever the other users hold; and search_memory for u
\* returns rows of u only, on every table the store comes to hold
C39_UsersIsolated ==
  /\ [][/\ \A v \in StoreUsers :
            (OwnRows(table', v) # OwnRows(table, v)) =>
              \/ apc[1] = "embedding" /\ acall[1].user = v
              \/ /\ apc[1] = "idle"
                 /\ OwnRows(table', v) = {}
                 /\ \A w \in StoreUsers \ {v} : OwnRows(table', w) = OwnRows(table, w)
        /\ (nadds' = nadds + 1) =>
              \E u \in StoreUsers, c \in StoreContents :
                /\ IF apc'[1] = "embedding"
                     THEN acall'[1].user = u /\ acall'[1].content = c
                     ELSE lastAdd'.user = u /\ lastAdd'.content = c
                /\ (apc'[1] = "embedding") <=>
                     ~\E r \in OwnRows(table, u) : r.hash = ContentHash(c)]_vars
  /\ [](\A u \in StoreUsers :
          \A i \in SearchedIds(table, u) : \E r \in OwnRows(table, u) : r.id = i)

\* an eviction for one user while the other holds rows, the same content
\* stored once for each of the two, and a search that returns a row
C39_Witness ==
  /\ lastAdd.ret /\ lastAdd.evicted > 0
  /\ \E r1, r2 \in table :
       r1.user # r2.user /\ r1.content = r2.content /\ r1.user = lastAdd.user
  /\ \A u \in StoreUsers : \A r1, r2 \in OwnRows(table, u) : r1.content = r2.content => r1 = r2
  /\ \E u \in StoreUsers : SearchedIds(table, u) # {}

\* C40: an add_memory of content whose row of that user was deleted, by
\* eviction or by clear_memory, and is not stored now goes on to the insert,
\* returns True and stores a new row; a clear_memory leaves its user with no
\* row
C40_OnlyStoredEntriesCount ==
  [][/\ (nadds' = nadds + 1) =>
          \E u \in StoreUsers, c \in StoreContents :
            /\ IF apc'[1] = "embedding"
                 THEN acall'[1].user = u /\ acall'[1].content = c
                 ELSE lastAdd'.user = u /\ lastAdd'.content = c
            /\ (/\ <<u, ContentHash(c)>> \in removed
                /\ ~\E r \in OwnRows(table, u) : r.hash = ContentHash(c))
                 => apc'[1] = "embedding"
     /\ (apc[1] = "embedding" /\ apc'[1] = "idle") =>
          /\ lastAdd'.ret
          /\ \E r \in table' \ table :
               r.id = nextId /\ r.user = acall[1].user /\ r.content = acall[1].content
     /\ (apc' = apc /\ nadds' = nadds /\ table' # table) =>
          \E u \in StoreUsers : OwnRows(table, u) # {} /\ OwnRows(table', u) = {}]_vars

\* content that an eviction had deleted was added again and is stored
C40_Witness ==
  /\ lastAdd.ret /\ lastAdd.evicted > 0
  /\ <<lastAdd.user, ContentHash(lastAdd.content)>> \in removed
  /\ \E r \in OwnRows(table, lastAdd.user) : r.content = lastAdd.content /\ r.id = nextId - 1

====
